---------------------------- MODULE Spec2Model ----------------------------
(***************************************************************************)
(* Model of the insurance-claims platform: the tenant- and role-scoped     *)
(* claim repository (ClaimRepository), the idempotent job ledger           *)
(* (JobProcessingLogRepository) and the background processors              *)
(* (processPatientAdmission / Discharge / TreatmentInitiated).             *)
(*                                                                         *)
(* Every `await` on the database is one step.  A runInTransaction body is  *)
(* two steps, its SELECT and its UPDATE: the transaction is opened with    *)
(* the driver's default isolation and the SELECT takes no row lock, so     *)
(* another transaction may commit between the two.                         *)
(***************************************************************************)
EXTENDS Integers, Sequences, FiniteSets, TLC

VARIABLES
  claims,     \* the claims table: claim id -> row
  req,        \* the call each request slot is in, or has last finished, with its outcome
  ledger,     \* job_processing_logs: idempotency key -> row (or NoLog)
  wk,         \* processor executions, per worker slot
  faults,     \* storage failures injected so far
  lastFailed, \* per idempotency key: what the last failed run fetched and updated
  inserted,   \* the rows create has added to the claims table, oldest first
  users,      \* the users table: user id -> row
  issued,     \* the credentials (JWT payloads) issued so far
  events,     \* the patient_status_events table, oldest row first
  queue,      \* the jobs added to the claims queue, oldest first
  rateLimitStore, \* the rate limiters' map: key -> entry, for the keys it holds
  now         \* the clock, in rate-limit windows

vars == <<claims, req, ledger, wk, faults, lastFailed, inserted, users, issued, events, queue,
          rateLimitStore, now>>

---------------------------------------------------------------------------
(* Bounds of the model *)

\* longest status history a claim may grow to
MaxHist == 3
\* storage failures injected in one behaviour
MaxFaults == 1
\* claims created in one behaviour
MaxCreated == 2
\* rate-limit windows the clock runs through
MaxNow == 2
\* limiter invocations counted for one key in one window
MaxRequests == 22

---------------------------------------------------------------------------
(* Static data: organizations, users, patients, providers, claim ids *)

Roles == {"admin", "claims_processor", "provider", "patient"}

ClaimStatus == {"submitted", "under_review", "approved", "rejected", "paid"}

\* ids of the rows of the claims table, newest first (ORDER BY created_at DESC)
ClaimOrder == <<"c1", "c2", "c3", "c4", "c5", "c6">>

ClaimIds == {ClaimOrder[i] : i \in 1..Len(ClaimOrder)}

\* an id that is a valid uuid but names no row
MissingId == "c9"

\* the literal the role filter compares claims.id with when access is denied
NoAccessId == "no-access"

\* a column that is NULL / a field that is undefined
Null == "null"

\* the row a claim is inserted with (organization, patient, provider, assignee)
ClaimSeed ==
  [ c1 |-> [organizationId |-> "orgA", patientId |-> "p1", providerId |-> "pr1", assignedTo |-> "u2", amount |-> 150],
    c2 |-> [organizationId |-> "orgA", patientId |-> "p1", providerId |-> "pr2", assignedTo |-> Null, amount |-> 200],
    c3 |-> [organizationId |-> "orgA", patientId |-> "p2", providerId |-> "pr1", assignedTo |-> "u2", amount |-> 100],
    c4 |-> [organizationId |-> "orgA", patientId |-> "p2", providerId |-> "pr1", assignedTo |-> Null, amount |-> 75],
    c5 |-> [organizationId |-> "orgA", patientId |-> "p2", providerId |-> "pr2", assignedTo |-> Null, amount |-> 50],
    c6 |-> [organizationId |-> "orgB", patientId |-> "p3", providerId |-> "pr3", assignedTo |-> Null, amount |-> 300] ]

None == <<>>

Some(x) == <<x>>

\* TenantContext
Ctx(org, user, role, assigned, provider, patient) ==
  [organizationId |-> org, userId |-> user, role |-> role,
   assignedClaimIds |-> assigned, providerId |-> provider, patientId |-> patient]

\* the contexts of the users that issue requests
AdminA == Ctx("orgA", "u1", "admin", None, Null, Null)

ProcessorA == Ctx("orgA", "u2", "claims_processor", Some({"c1", "c2"}), Null, Null)

ProcessorNew == Ctx("orgA", "u3", "claims_processor", Some({}), Null, Null)

\* a processor whose assigned set names c2 only
ProcessorOther == Ctx("orgA", "u7", "claims_processor", Some({"c2"}), Null, Null)

ProviderA == Ctx("orgA", "u4", "provider", None, "pr1", Null)

AdminB == Ctx("orgB", "u5", "admin", None, Null, Null)

PatientA == Ctx("orgA", "u6", "patient", None, Null, "p1")

Contexts == {AdminA, ProcessorA, ProcessorNew, ProviderA, AdminB, PatientA}

\* every context the properties range over: each organization, each role (an
\* unknown one included) with each value of its scoping data, and contexts
\* that carry scoping data of all three kinds at once
AllContexts ==
  UNION { { Ctx(o, "u1", "admin", None, Null, Null),
            Ctx(o, "u1", "auditor", None, Null, Null),
            Ctx(o, "u1", "auditor", Some(ClaimIds), "pr1", "p1") }
          \cup { Ctx(o, "u1", "claims_processor", a, Null, Null) :
                   a \in {None, Some({}), Some({"c1", "c6"}), Some(ClaimIds)} }
          \cup { Ctx(o, "u1", "claims_processor", a, "pr1", "p1") :
                   a \in {None, Some({})} }
          \cup { Ctx(o, "u1", "provider", a, pr, Null) :
                   a \in {None, Some(ClaimIds)}, pr \in {Null, "pr1", "pr3"} }
          \cup { Ctx(o, "u1", "patient", a, Null, pa) :
                   a \in {None, Some(ClaimIds)}, pa \in {Null, "p1", "p3"} }
          : o \in {"orgA", "orgB"} }

---------------------------------------------------------------------------
(* Permission policy *)

CanCreateClaims(role) == role \in {"admin", "claims_processor", "provider"}

\* a policy that lets providers update status
CanUpdateClaimStatusWithProvider(role) ==
  role \in {"admin", "claims_processor", "provider"}

CanUpdateClaimStatus(role) == role \in {"admin", "claims_processor"}

---------------------------------------------------------------------------
(* ClaimRepository: predicates and reads *)

\* one entry of a claim's statusHistory; via is the writer (a request or the
\* idempotency key of a job), kept for the properties only
StatusChange(from, to, by, via) ==
  [fromStatus |-> from, toStatus |-> to, changedBy |-> by, via |-> via]

\* the time of a write, read off the history the write leaves
Now(history) == Len(history)

\* the row ClaimRepository.create inserts
NewClaim(id) ==
  [id |-> id,
   organizationId |-> ClaimSeed[id].organizationId,
   patientId |-> ClaimSeed[id].patientId,
   providerId |-> ClaimSeed[id].providerId,
   assignedTo |-> ClaimSeed[id].assignedTo,
   amount |-> ClaimSeed[id].amount,
   status |-> "submitted",
   statusHistory |-> <<StatusChange(Null, "submitted", "u1", "create")>>,
   processedAt |-> 0,
   paidAt |-> 0]

\* the tenant predicate
GetTenantFilter(context, row) == row.organizationId = context.organizationId

\* a role predicate that lets a provider see every claim of the organization
BuildRoleFilterProviderSeesAll(context, row) ==
  CASE context.role = "admin" -> TRUE
    [] context.role = "claims_processor" ->
         IF context.assignedClaimIds = None \/ context.assignedClaimIds = Some({})
           THEN row.id = NoAccessId
           ELSE row.id \in context.assignedClaimIds[1]
    [] context.role = "provider" -> TRUE
    [] context.role = "patient" ->
         IF context.patientId = Null
           THEN row.id = NoAccessId
           ELSE row.patientId = context.patientId
    [] OTHER -> row.id = NoAccessId

\* the role predicate over a row
BuildRoleFilter(context, row) ==
  CASE context.role = "admin" -> TRUE
    [] context.role = "claims_processor" ->
         IF context.assignedClaimIds = None \/ context.assignedClaimIds = Some({})
           THEN row.id = NoAccessId
           ELSE row.id \in context.assignedClaimIds[1]
    [] context.role = "provider" ->
         IF context.providerId = Null
           THEN row.id = NoAccessId
           ELSE row.providerId = context.providerId
    [] context.role = "patient" ->
         IF context.patientId = Null
           THEN row.id = NoAccessId
           ELSE row.patientId = context.patientId
    [] OTHER -> row.id = NoAccessId

\* tenant predicate AND the given conditions
WithTenantFilter(context, row, conditions) ==
  GetTenantFilter(context, row) /\ conditions

\* claims.id is a uuid column: text that is no uuid cannot be compared with it
IsUuid(text) == text # NoAccessId

\* the role filter is the comparison of claims.id with the 'no-access' literal
DeniesByLiteral(context) ==
  CASE context.role = "admin" -> FALSE
    [] context.role = "claims_processor" ->
         context.assignedClaimIds = None \/ context.assignedClaimIds = Some({})
    [] context.role = "provider" -> context.providerId = Null
    [] context.role = "patient" -> context.patientId = Null
    [] OTHER -> TRUE

\* PostgreSQL rejects a statement whose WHERE compares the uuid column with a
\* literal that is no uuid (invalid input syntax for type uuid), whatever the
\* rows: every query built with such a role filter raises instead of answering
QueryRaises(context) == DeniesByLiteral(context) /\ ~IsUuid(NoAccessId)

\* a SELECT by id that leaves the role predicate out
SelectByIdNoRole(tbl, id, context) ==
  { c \in ClaimIds : GetTenantFilter(context, tbl[c]) /\ tbl[c].id = id }

\* the rows SELECT ... WHERE tenant AND id AND role returns, over table tbl,
\* when the statement is accepted
SelectById(tbl, id, context) ==
  { c \in ClaimIds :
      WithTenantFilter(context, tbl[c], tbl[c].id = id /\ BuildRoleFilter(context, tbl[c])) }

NoClaim == [id |-> Null]

\* the call ends in the error the database raised
Raised == [id |-> "DatabaseError"]

\* result[0] ? mapToDomain(result[0]) : null
FirstRow(tbl, rows) == IF rows = {} THEN NoClaim ELSE tbl[CHOOSE c \in rows : TRUE]

FindById(id, context) ==
  IF QueryRaises(context) THEN Raised
  ELSE FirstRow(claims, SelectById(claims, id, context))

\* findMany / count / sumAmount with no further filter: the rows the WHERE
\* keeps, when the statement is accepted (QueryRaises tells when it is not)
FindMany(context) ==
  { c \in ClaimIds : WithTenantFilter(context, claims[c], BuildRoleFilter(context, claims[c])) }

Count(context) == Cardinality(FindMany(context))

RECURSIVE SumOf(_)
SumOf(rows) ==
  IF rows = {} THEN 0
  ELSE LET c == CHOOSE x \in rows : TRUE IN claims[c].amount + SumOf(rows \ {c})

\* COALESCE(SUM(amount), 0) over the rows the WHERE keeps
SumAmount(context) == SumOf(FindMany(context))

---------------------------------------------------------------------------
(* ClaimRepository.updateStatus: permission check, then a transaction of a
   SELECT (tenant, id and role filter) and an UPDATE ... WHERE id *)

Reqs == {"r1", "r2"}

\* the ids and statuses requests are issued with
RequestIds == {"c1", "c2", MissingId}

RequestStatuses == {"under_review", "approved", "paid"}

\* the ids getClaimById is called with
ReadIds == {"c1", "c6", MissingId}

\* no CreateClaimInput
NoInput == [patientId |-> Null]

\* no patient status event returned
NoEvent == [idempotencyKey |-> Null]

\* a request made without a credential
NoJwt == [userId |-> Null]

\* no bulkUpdateStatus in progress
NoBulk == [ids |-> <<>>]

IdleReq ==
  [pc |-> "idle", op |-> Null, ctx |-> AdminA, id |-> MissingId,
   newStatus |-> Null, snap |-> NoClaim, outcome |-> Null, input |-> NoInput,
   bulk |-> NoBulk, jwt |-> NoJwt, event |-> NoEvent, rows |-> {}]

\* no check at all
IsModifiableAlways(status) == TRUE

\* a check that forgets approved
IsModifiableOnlyPaid(status) == status # "paid"

\* claim.status === 'approved' || claim.status === 'paid' blocks the update
IsModifiable(status) == status \notin {"approved", "paid"}

\* (a variant without the second check)
AssignmentOkAlways(context, row) == TRUE

\* the processor's second check, on the row's assignedTo
AssignmentOk(context, row) ==
  ~(context.role = "claims_processor" /\ row.assignedTo # context.userId)

\* the outcome of the checks of updateStatus up to its UPDATE, on table tbl:
\* "write" when the call goes on to the UPDATE
UpdateStatusChecks(tbl, id, context) ==
  LET rows == SelectById(tbl, id, context)
      row  == FirstRow(tbl, rows)
  IN  IF ~CanUpdateClaimStatus(context.role) THEN "Forbidden"
      ELSE IF QueryRaises(context) THEN "DatabaseError"
      ELSE IF rows = {} THEN "NotFound"
      ELSE IF ~IsModifiable(row.status) THEN "ClaimNotModifiable"
      ELSE IF ~AssignmentOk(context, row) THEN "Forbidden"
      ELSE "write"

\* (a variant that stamps the times again on every entry into the status)
UpdatedRowStampsAgain(cur, snap, newStatus, by, via) ==
  LET history == Append(snap.statusHistory,
                        StatusChange(snap.status, newStatus, by, via))
  IN  [cur EXCEPT
         !.status = newStatus,
         !.statusHistory = history,
         !.processedAt = IF newStatus \in {"approved", "rejected"}
                           THEN Now(history) ELSE snap.processedAt,
         !.paidAt = IF newStatus = "paid" THEN Now(history) ELSE snap.paidAt]

\* the row the UPDATE of updateStatus writes, from the row its SELECT returned
UpdatedRow(cur, snap, newStatus, by, via) ==
  LET history == Append(snap.statusHistory,
                        StatusChange(snap.status, newStatus, by, via))
  IN  [cur EXCEPT
         !.status = newStatus,
         !.statusHistory = history,
         !.processedAt = IF newStatus \in {"approved", "rejected"} /\ snap.processedAt = 0
                           THEN Now(history) ELSE snap.processedAt,
         !.paidAt = IF newStatus = "paid" /\ snap.paidAt = 0
                      THEN Now(history) ELSE snap.paidAt]

\* what a failed run left behind, for the run that retries it: the claims it
\* fetched and those it updated; not valid once another writer has written
NoFailed == [valid |-> FALSE, fetched |-> <<>>, updated |-> <<>>]

\* updateStatus up to and including the SELECT of its transaction
UpdateStatusBegin(r, context, id, newStatus) ==
  /\ req[r].pc \in {"idle", "done"}
  /\ LET out == UpdateStatusChecks(claims, id, context)
     IN  /\ out = "write" => Len(claims[id].statusHistory) < MaxHist
         /\ req' = [req EXCEPT ![r] =
              [pc |-> IF out = "write" THEN "write" ELSE "done",
               op |-> "updateStatus", ctx |-> context, id |-> id, newStatus |-> newStatus,
               snap |-> IF out = "write" THEN claims[id] ELSE NoClaim,
               outcome |-> IF out = "write" THEN Null ELSE out,
               input |-> NoInput, bulk |-> NoBulk, jwt |-> NoJwt, event |-> NoEvent,
               rows |-> {}]]
  /\ UNCHANGED <<claims, ledger, wk, faults, lastFailed, inserted, users, issued, events, queue, rateLimitStore, now>>

\* the UPDATE of the transaction and its commit
UpdateStatusCommit(r) ==
  /\ req[r].pc = "write"
  /\ claims' = [claims EXCEPT ![req[r].id] =
       UpdatedRow(@, req[r].snap, req[r].newStatus, req[r].ctx.userId, "request")]
  /\ req' = [req EXCEPT ![r].pc = "done", ![r].snap = NoClaim, ![r].outcome = "ok"]
  /\ lastFailed' = [k \in DOMAIN lastFailed |-> NoFailed]
  /\ UNCHANGED <<ledger, wk, faults, inserted, users, issued, events, queue, rateLimitStore, now>>

\* the rows SELECT ... WHERE tenant AND patientId returns: findByPatientId
\* builds no role filter (no status filter given)
FindByPatientId(patientId, context) ==
  { c \in ClaimIds :
      WithTenantFilter(context, claims[c], claims[c].patientId = patientId) }

\* ClaimRepository.findByPatientId
FindByPatientIdCall(r, context, patientId) ==
  /\ req[r].pc \in {"idle", "done"}
  /\ req' = [req EXCEPT ![r] =
       [IdleReq EXCEPT !.pc = "done", !.op = "findByPatientId", !.ctx = context,
          !.outcome = "ok", !.rows = FindByPatientId(patientId, context)]]
  /\ UNCHANGED <<claims, ledger, wk, faults, lastFailed, inserted, users, issued, events, queue, rateLimitStore, now>>

\* the outcome of ClaimsService.getClaimById
GetClaimByIdOutcome(id, context) ==
  IF FindById(id, context) = Raised THEN "DatabaseError"
  ELSE IF FindById(id, context) = NoClaim THEN "NotFound"
  ELSE "ok"

\* ClaimsService.getClaimById: findById, NotFound when it returns no claim; an
\* error of the query passes through
GetClaimById(r, context, id) ==
  /\ req[r].pc \in {"idle", "done"}
  /\ req' = [req EXCEPT ![r] =
       [IdleReq EXCEPT !.pc = "done", !.op = "findById", !.ctx = context, !.id = id,
          !.outcome = GetClaimByIdOutcome(id, context)]]
  /\ UNCHANGED <<claims, ledger, wk, faults, lastFailed, inserted, users, issued, events, queue, rateLimitStore, now>>

---------------------------------------------------------------------------
(* Authentication: the credential and the context built from it *)

\* the users that log in: the processor u2
UserSeed ==
  [u2 |-> [organizationId |-> "orgA", role |-> "claims_processor", isActive |-> TRUE,
           assignedClaimIds |-> {"c1", "c2"}, providerId |-> Null, patientId |-> Null]]

\* the assignment sets an admin gives a processor
AssignmentSets == {{"c1", "c2"}, {"c1"}, {"c2"}}

\* the JwtPayload login signs: identity, organization and role, no assigned
\* claims; assignedAtIssue is what the user row held then, kept for the
\* properties only
Payload(userId) ==
  [userId |-> userId, organizationId |-> users[userId].organizationId,
   role |-> users[userId].role, providerId |-> users[userId].providerId,
   patientId |-> users[userId].patientId,
   assignedAtIssue |-> users[userId].assignedClaimIds]

\* AuthService.login of an active user
Login(userId) ==
  /\ users[userId].isActive
  /\ issued' = issued \cup {Payload(userId)}
  /\ UNCHANGED <<claims, req, ledger, wk, faults, lastFailed, inserted, users, events, queue, rateLimitStore, now>>

\* userRepository.updateAssignedClaims
UpdateAssignedClaims(userId, claimIds) ==
  /\ users' = [users EXCEPT ![userId].assignedClaimIds = claimIds]
  /\ UNCHANGED <<claims, req, ledger, wk, faults, lastFailed, inserted, issued, events, queue, rateLimitStore, now>>

\* userRepository.update(id, {isActive})
UpdateUserActive(userId, isActive) ==
  /\ users' = [users EXCEPT ![userId].isActive = isActive]
  /\ UNCHANGED <<claims, req, ledger, wk, faults, lastFailed, inserted, issued, events, queue, rateLimitStore, now>>

\* no context: the request is rejected with Unauthorized
Unauthorized == [organizationId |-> Null]

\* a context that takes the assigned claims from the credential
GetTenantContextFromCredential(payload) ==
  Ctx(payload.organizationId, payload.userId, payload.role,
      Some(payload.assignedAtIssue), payload.providerId, payload.patientId)

\* AuthService.getTenantContext: the user row is read at each request; the
\* assigned claims come from the row, the rest from the credential
GetTenantContext(payload) ==
  IF payload.userId \notin DOMAIN users THEN Unauthorized
  ELSE IF ~users[payload.userId].isActive THEN Unauthorized
  ELSE Ctx(payload.organizationId, payload.userId, payload.role,
           Some(users[payload.userId].assignedClaimIds),
           payload.providerId, payload.patientId)

\* authenticate, then GET /api/claims/:id under the context it built
AuthenticatedGetClaim(r, payload, id) ==
  /\ req[r].pc \in {"idle", "done"}
  /\ LET context == GetTenantContext(payload)
     IN  req' = [req EXCEPT ![r] =
           IF context = Unauthorized
             THEN [IdleReq EXCEPT !.pc = "done", !.op = "getClaim", !.jwt = payload,
                     !.id = id, !.outcome = "Unauthorized"]
             ELSE [IdleReq EXCEPT !.pc = "done", !.op = "getClaim", !.jwt = payload,
                     !.ctx = context, !.id = id,
                     !.outcome = GetClaimByIdOutcome(id, context)]]
  /\ UNCHANGED <<claims, ledger, wk, faults, lastFailed, inserted, users, issued, events, queue, rateLimitStore, now>>

---------------------------------------------------------------------------
(* bulkUpdateStatus *)

\* the id lists bulkUpdateStatus is called with: ids of the caller's
\* organization, an id without a row, an id of another organization, and a
\* list that names one id twice
BulkIdLists ==
  { <<"c1", "c2">>, <<"c1", MissingId, "c2">>, <<"c6", "c1">>, <<"c1", "c1">> }

\* the loop of bulkUpdateStatus at its start; before is the claims table the
\* call found, kept for the properties only
BulkStart(ids) ==
  [ids |-> ids, i |-> 1, updated |-> <<>>, failed |-> <<>>, before |-> claims]

\* updateStatus returned null or threw: failed.push(id), on to the next id
BulkAfterFailure(bulk) ==
  [bulk EXCEPT !.failed = Append(@, bulk.ids[bulk.i]), !.i = @ + 1]

\* updateStatus returned the claim: updated.push(id), on to the next id
BulkAfterSuccess(bulk) ==
  [bulk EXCEPT !.updated = Append(@, bulk.ids[bulk.i]), !.i = @ + 1]

\* the loop has gone through all ids
BulkFinished(bulk) == bulk.i > Len(bulk.ids)

\* bulkUpdateStatus: the permission check, made once for the whole call
BulkBeginSlot(context, ids, newStatus) ==
  IF CanUpdateClaimStatus(context.role)
    THEN [IdleReq EXCEPT !.pc = "bulk", !.op = "bulkUpdateStatus", !.ctx = context,
            !.newStatus = newStatus, !.bulk = BulkStart(ids)]
    ELSE [IdleReq EXCEPT !.pc = "done", !.op = "bulkUpdateStatus", !.ctx = context,
            !.newStatus = newStatus, !.outcome = "Forbidden"]

BulkBegin(r, context, ids, newStatus) ==
  /\ req[r].pc \in {"idle", "done"}
  /\ req' = [req EXCEPT ![r] = BulkBeginSlot(context, ids, newStatus)]
  /\ UNCHANGED <<claims, ledger, wk, faults, lastFailed, inserted, users, issued, events, queue, rateLimitStore, now>>

\* what a slot is left in after the loop's step on one id
BulkNext(slot, bulk) ==
  [slot EXCEPT !.bulk = bulk, !.snap = NoClaim,
               !.pc = IF BulkFinished(bulk) THEN "done" ELSE "bulk",
               !.outcome = IF BulkFinished(bulk) THEN "ok" ELSE Null]

\* one turn of the loop: updateStatus on the next id up to its UPDATE; a null
\* or an exception puts the id in failed
BulkSelect(r) ==
  /\ req[r].pc = "bulk"
  /\ LET id == req[r].bulk.ids[req[r].bulk.i]
         out == UpdateStatusChecks(claims, id, req[r].ctx)
     IN  /\ out = "write" => Len(claims[id].statusHistory) < MaxHist
         /\ req' = [req EXCEPT ![r] =
              IF out = "write"
                THEN [@ EXCEPT !.pc = "bulkwrite", !.snap = claims[id]]
                ELSE BulkNext(@, BulkAfterFailure(req[r].bulk))]
  /\ UNCHANGED <<claims, ledger, wk, faults, lastFailed, inserted, users, issued, events, queue, rateLimitStore, now>>

\* the UPDATE of that updateStatus and its commit; the id goes to updated
BulkCommit(r) ==
  /\ req[r].pc = "bulkwrite"
  /\ LET id == req[r].bulk.ids[req[r].bulk.i]
     IN  claims' = [claims EXCEPT ![id] =
           UpdatedRow(@, req[r].snap, req[r].newStatus, req[r].ctx.userId, "request")]
  /\ req' = [req EXCEPT ![r] = BulkNext(@, BulkAfterSuccess(req[r].bulk))]
  /\ lastFailed' = [k \in DOMAIN lastFailed |-> NoFailed]
  /\ UNCHANGED <<ledger, wk, faults, inserted, users, issued, events, queue, rateLimitStore, now>>

---------------------------------------------------------------------------
(* createClaim *)

\* the patients and providers tables: id -> organization
PatientOrg == [p1 |-> "orgA", p2 |-> "orgA", p3 |-> "orgB"]

ProviderOrg == [pr1 |-> "orgA", pr2 |-> "orgA", pr3 |-> "orgB"]

\* patientRepository.exists / providerRepository.exists: count of the rows
\* with this id in the caller's organization > 0
PatientExists(id, context) ==
  id \in DOMAIN PatientOrg /\ PatientOrg[id] = context.organizationId

ProviderExists(id, context) ==
  id \in DOMAIN ProviderOrg /\ ProviderOrg[id] = context.organizationId

\* diagnosis codes: one of the valid list, one outside it
ValidDiagnosisCodes == {"J06.9", "I10"}

\* amounts are in cents: bounds 0.01 and 1,000,000.00
AmountMin == 1
AmountMax == 100000000

\* the inputs createClaim is called with: a patient and providers of the
\* caller's organization, of another organization, and a provider id without
\* a row
CreateInputs ==
  [patientId : {"p1", "p3"},
   providerId : {"pr1", "pr2", "pr3", "pr9"},
   diagnosisCode : {"J06.9", "X00"},
   amount : {0, 15000, AmountMax + 1},
   organizationId : {Null, "orgB"}]

\* the checks of ClaimRepository.create: the permission of the role, then the
\* provider's own id; "insert" when the call goes on to the INSERT
RepositoryCreateChecks(data, context) ==
  IF ~CanCreateClaims(context.role) THEN "Forbidden"
  ELSE IF context.role = "provider" /\ data.providerId # context.providerId
    THEN "Forbidden"
  ELSE "insert"

\* the outcome of createClaim's checks, in the order the service and then the
\* repository make them: "insert" when the call goes on to the INSERT
CreateClaimChecks(input, context) ==
  IF input.diagnosisCode \notin ValidDiagnosisCodes THEN "InvalidDiagnosisCode"
  ELSE IF input.amount < AmountMin \/ input.amount > AmountMax THEN "InvalidClaimAmount"
  ELSE IF ~PatientExists(input.patientId, context) THEN "NotFound"
  ELSE IF ~ProviderExists(input.providerId, context) THEN "NotFound"
  ELSE IF context.role = "provider" /\ input.providerId # context.providerId
    THEN "Forbidden"
  ELSE RepositoryCreateChecks(input, context)

\* an INSERT that keeps the organization the input carries
InsertedRowTrustsInput(input, context) ==
  [organizationId |-> IF input.organizationId # Null THEN input.organizationId
                      ELSE context.organizationId,
   patientId |-> input.patientId,
   providerId |-> input.providerId,
   assignedTo |-> Null,
   amount |-> input.amount,
   status |-> "submitted",
   statusHistory |-> <<StatusChange(Null, "submitted", context.userId, "create")>>,
   processedAt |-> 0,
   paidAt |-> 0]

\* the row ClaimRepository.create inserts: the fields of data, then
\* organizationId, status and statusHistory set over whatever data carries
InsertedRow(input, context) ==
  [organizationId |-> context.organizationId,
   patientId |-> input.patientId,
   providerId |-> input.providerId,
   assignedTo |-> Null,
   amount |-> input.amount,
   status |-> "submitted",
   statusHistory |-> <<StatusChange(Null, "submitted", context.userId, "create")>>,
   processedAt |-> 0,
   paidAt |-> 0]

\* ClaimsService.createClaim
CreateClaim(r, context, input) ==
  /\ req[r].pc \in {"idle", "done"}
  /\ LET out == CreateClaimChecks(input, context)
     IN  /\ out = "insert" => Len(inserted) < MaxCreated
         /\ inserted' = IF out = "insert"
                          THEN Append(inserted, InsertedRow(input, context))
                          ELSE inserted
         /\ req' = [req EXCEPT ![r] =
              [IdleReq EXCEPT !.pc = "done", !.op = "createClaim", !.ctx = context,
                 !.input = input, !.outcome = IF out = "insert" THEN "ok" ELSE out]]
  /\ UNCHANGED <<claims, ledger, wk, faults, lastFailed, users, issued, events, queue, rateLimitStore, now>>

\* ClaimRepository.create called with data the caller has validated
Create(r, context, data) ==
  /\ req[r].pc \in {"idle", "done"}
  /\ LET out == RepositoryCreateChecks(data, context)
     IN  /\ out = "insert" => Len(inserted) < MaxCreated
         /\ inserted' = IF out = "insert"
                          THEN Append(inserted, InsertedRow(data, context))
                          ELSE inserted
         /\ req' = [req EXCEPT ![r] =
              [IdleReq EXCEPT !.pc = "done", !.op = "create", !.ctx = context,
                 !.input = data, !.outcome = IF out = "insert" THEN "ok" ELSE out]]
  /\ UNCHANGED <<claims, ledger, wk, faults, lastFailed, users, issued, events, queue, rateLimitStore, now>>

---------------------------------------------------------------------------
(* PatientStatusService.createStatusEvent *)

\* the inputs of createStatusEvent, each with a client-provided key
EventInputs ==
  [patientId : {"p1", "p3"}, statusType : {"admission", "discharge"},
   idempotencyKey : {"e1"}]

\* the rows a SELECT by (idempotency key, organization) finds
EventsByKey(tbl, key, organizationId) ==
  { i \in 1..Len(tbl) :
      tbl[i].idempotencyKey = key /\ tbl[i].organizationId = organizationId }

\* patientStatusRepository.findByIdempotencyKey: tenant filter AND key, limit 1
FindEventByKey(key, context) ==
  IF EventsByKey(events, key, context.organizationId) = {} THEN NoEvent
  ELSE events[CHOOSE i \in EventsByKey(events, key, context.organizationId) :
                \A j \in EventsByKey(events, key, context.organizationId) : i <= j]

\* a table without the unique index
UniqueIndexRejectsNever(tbl, key, organizationId) == FALSE

\* patient_status_idempotency_org_idx: a second row with the key in the
\* organization is rejected
UniqueIndexRejects(tbl, key, organizationId) ==
  EventsByKey(tbl, key, organizationId) # {}

\* the row patientStatusRepository.create inserts; job id 0 is no job id
EventRow(input, context) ==
  [organizationId |-> context.organizationId, patientId |-> input.patientId,
   statusType |-> input.statusType, idempotencyKey |-> input.idempotencyKey,
   jobId |-> 0, jobStatus |-> "pending"]

\* the job queueJob adds for an event
JobType(statusType) ==
  CASE statusType = "admission" -> "patient_admission"
    [] statusType = "discharge" -> "patient_discharge"
    [] statusType = "treatment" -> "treatment_initiated"

\* `job-${event.idempotencyKey}`: the string job-e1 is the ledger key k1
JobKey(key) == CASE key = "e1" -> "k1" [] key = "e2" -> "k2"

JobData(event, jobId, triggeredBy) ==
  [jobId |-> jobId, type |-> JobType(event.statusType),
   organizationId |-> event.organizationId, patientId |-> event.patientId,
   triggeredBy |-> triggeredBy,
   idempotencyKey |-> JobKey(event.idempotencyKey)]

\* createStatusEvent up to its INSERT: the lookup by key, then the patient
EventBegin(r, context, input) ==
  /\ req[r].pc \in {"idle", "done"}
  /\ LET existing == FindEventByKey(input.idempotencyKey, context)
         slot == [IdleReq EXCEPT !.op = "createStatusEvent", !.ctx = context,
                                 !.input = input]
     IN  req' = [req EXCEPT ![r] =
           IF existing # NoEvent
             THEN [slot EXCEPT !.pc = "done", !.outcome = "existing", !.event = existing]
           ELSE IF ~PatientExists(input.patientId, context)
             THEN [slot EXCEPT !.pc = "done", !.outcome = "NotFound"]
           ELSE [slot EXCEPT !.pc = "insertEvent"]]
  /\ UNCHANGED <<claims, ledger, wk, faults, lastFailed, inserted, users, issued, events, queue, rateLimitStore, now>>

\* the INSERT of the event; the unique index may reject it
EventInsert(r) ==
  /\ req[r].pc = "insertEvent"
  /\ IF UniqueIndexRejects(events, req[r].input.idempotencyKey, req[r].ctx.organizationId)
       THEN /\ req' = [req EXCEPT ![r].pc = "done", ![r].outcome = "DatabaseError"]
            /\ UNCHANGED events
       ELSE /\ events' = Append(events, EventRow(req[r].input, req[r].ctx))
            /\ req' = [req EXCEPT ![r].pc = "queueJob",
                                  ![r].event = EventRow(req[r].input, req[r].ctx)]
  /\ UNCHANGED <<claims, ledger, wk, faults, lastFailed, inserted, users, issued, queue, rateLimitStore, now>>

\* queueJob: claimsQueue.add, then updateJobStatus(event.id, jobId, 'processing')
EventEnqueue(r) ==
  /\ req[r].pc = "queueJob"
  /\ LET jobId == Len(queue) + 1
         key == req[r].input.idempotencyKey
         org == req[r].ctx.organizationId
     IN  /\ queue' = Append(queue, JobData(req[r].event, jobId, req[r].ctx.userId))
         /\ events' = [i \in 1..Len(events) |->
               IF i \in EventsByKey(events, key, org) /\ events[i] = req[r].event
                 THEN [events[i] EXCEPT !.jobId = jobId, !.jobStatus = "processing"]
                 ELSE events[i]]
  /\ req' = [req EXCEPT ![r].pc = "done", ![r].outcome = "created"]
  /\ UNCHANGED <<claims, ledger, wk, faults, lastFailed, inserted, users, issued, rateLimitStore, now>>

\* claimsQueue.add throws: the error is logged, the event is returned
EventEnqueueFails(r) ==
  /\ req[r].pc = "queueJob"
  /\ faults < MaxFaults
  /\ faults' = faults + 1
  /\ req' = [req EXCEPT ![r].pc = "done", ![r].outcome = "created"]
  /\ UNCHANGED <<claims, ledger, wk, lastFailed, inserted, users, issued, events, queue, rateLimitStore, now>>

\* patientStatusRepository.getHistory: tenant filter AND patient id (a row is
\* named by its place in the table; a page holds every row of the model)
GetHistory(patientId, context) ==
  { i \in 1..Len(events) :
      /\ events[i].organizationId = context.organizationId
      /\ events[i].patientId = patientId }

\* patientStatusRepository.findById: tenant filter AND id
FindEventById(id, context) ==
  { i \in 1..Len(events) :
      events[i].organizationId = context.organizationId /\ i = id }

\* PatientStatusService.getPatientHistory: NotFound unless the patient exists
\* in the caller's organization, then getHistory
GetPatientHistory(r, context, patientId) ==
  /\ req[r].pc \in {"idle", "done"}
  /\ req' = [req EXCEPT ![r] =
       IF ~PatientExists(patientId, context)
         THEN [IdleReq EXCEPT !.pc = "done", !.op = "getPatientHistory", !.ctx = context,
                 !.outcome = "NotFound"]
         ELSE [IdleReq EXCEPT !.pc = "done", !.op = "getPatientHistory", !.ctx = context,
                 !.outcome = "ok", !.rows = GetHistory(patientId, context)]]
  /\ UNCHANGED <<claims, ledger, wk, faults, lastFailed, inserted, users, issued, events, queue, rateLimitStore, now>>

\* PatientStatusService.getStatusEvent: findById, NotFound when it returns null
GetStatusEvent(r, context, id) ==
  /\ req[r].pc \in {"idle", "done"}
  /\ req' = [req EXCEPT ![r] =
       IF FindEventById(id, context) = {}
         THEN [IdleReq EXCEPT !.pc = "done", !.op = "getStatusEvent", !.ctx = context,
                 !.outcome = "NotFound"]
         ELSE [IdleReq EXCEPT !.pc = "done", !.op = "getStatusEvent", !.ctx = context,
                 !.outcome = "ok", !.rows = FindEventById(id, context)]]
  /\ UNCHANGED <<claims, ledger, wk, faults, lastFailed, inserted, users, issued, events, queue, rateLimitStore, now>>

---------------------------------------------------------------------------
(* The HTTP routes of /api/claims: the middleware in front of the service *)

\* env.RATE_LIMIT_WINDOW_MS and the window of bulkOperationRateLimit: one minute
RateLimitWindow == 1
\* env.RATE_LIMIT_MAX_REQUESTS
RateLimitMaxRequests == 100
\* maxRequests of bulkOperationRateLimit
BulkMaxRequests == 10

\* getRateLimitKey of an authenticated request
GetRateLimitKey(context) == <<context.organizationId, context.userId>>

\* the entry a limiter works on: the stored one, or a new one when the key has
\* none or its window has expired. requests and bulkRequests are not in the
\* code: they count the requests, and the bulk requests, of the entry's window
RateLimitEntry(store, key, t, windowMs) ==
  IF key \in DOMAIN store /\ ~(store[key].resetTime < t)
    THEN store[key]
    ELSE [count |-> 0, resetTime |-> t + windowMs, requests |-> 0, bulkRequests |-> 0]

\* one invocation of a rateLimit middleware: the entry counted up, and whether
\* the limiter throws RateLimitError
RateLimit(store, key, t, windowMs, maxRequests) ==
  LET entry == [RateLimitEntry(store, key, t, windowMs) EXCEPT !.count = @ + 1]
  IN  [store |-> [k \in DOMAIN store \cup {key} |-> IF k = key THEN entry ELSE store[k]],
       exceeded |-> entry.count > maxRequests]

\* the request is counted in its window (not in the code)
Counted(store, key, bulk) ==
  [store EXCEPT ![key].requests = @ + 1,
                ![key].bulkRequests = IF bulk THEN @ + 1 ELSE @]

\* requireClaimsAccess = requireRoles('admin', 'claims_processor')
ClaimsAccessRoles == {"admin", "claims_processor"}

RequireRoles(allowedRoles, context) == context.role \in allowedRoles

\* the requests of a key are followed up to this count
RateLimitCap(key) ==
  key \in DOMAIN rateLimitStore => rateLimitStore[key].count < MaxRequests

\* a request stopped by a middleware
Stopped(context, op, outcome) ==
  [IdleReq EXCEPT !.pc = "done", !.op = op, !.ctx = context, !.outcome = outcome]

\* GET /api/claims/:id for an authenticated caller: the router's rateLimit(),
\* requireAuthenticated (any role), then the controller and
\* ClaimsService.getClaimById
GetClaimRoute(r, context, id) ==
  /\ req[r].pc \in {"idle", "done"}
  /\ RateLimitCap(GetRateLimitKey(context))
  /\ LET key == GetRateLimitKey(context)
         general == RateLimit(rateLimitStore, key, now, RateLimitWindow, RateLimitMaxRequests)
     IN  /\ rateLimitStore' = Counted(general.store, key, FALSE)
         /\ req' = [req EXCEPT ![r] =
              IF general.exceeded THEN Stopped(context, "GET /:id", "RateLimitExceeded")
              ELSE [IdleReq EXCEPT !.pc = "done", !.op = "GET /:id", !.ctx = context,
                      !.id = id, !.outcome = GetClaimByIdOutcome(id, context)]]
  /\ UNCHANGED <<claims, ledger, wk, faults, lastFailed, inserted, users, issued, events, queue, now>>

\* POST /api/claims/bulk-status-update for an authenticated caller: the
\* router's rateLimit(), requireClaimsAccess, bulkOperationRateLimit,
\* validateBody (the lists of the model pass it), then the controller and the
\* start of bulkUpdateStatus
BulkStatusUpdateRoute(r, context, ids, newStatus) ==
  /\ req[r].pc \in {"idle", "done"}
  /\ RateLimitCap(GetRateLimitKey(context))
  /\ LET key == GetRateLimitKey(context)
         general == RateLimit(rateLimitStore, key, now, RateLimitWindow, RateLimitMaxRequests)
         bulk == RateLimit(general.store, key, now, RateLimitWindow, BulkMaxRequests)
         route == "POST /bulk-status-update"
     IN  IF general.exceeded
           THEN /\ rateLimitStore' = Counted(general.store, key, TRUE)
                /\ req' = [req EXCEPT ![r] = Stopped(context, route, "RateLimitExceeded")]
         ELSE IF ~RequireRoles(ClaimsAccessRoles, context)
           THEN /\ rateLimitStore' = Counted(general.store, key, TRUE)
                /\ req' = [req EXCEPT ![r] = Stopped(context, route, "Forbidden")]
         ELSE /\ rateLimitStore' = Counted(bulk.store, key, TRUE)
              /\ req' = [req EXCEPT ![r] =
                   IF bulk.exceeded THEN Stopped(context, route, "RateLimitExceeded")
                   ELSE [BulkBeginSlot(context, ids, newStatus) EXCEPT !.op = route]]
  /\ UNCHANGED <<claims, ledger, wk, faults, lastFailed, inserted, users, issued, events, queue, now>>

\* validateBody(createClaimSchema): the code and the amount are checked, keys
\* the schema does not name are stripped from the body
CreateClaimSchema(body) ==
  IF body.diagnosisCode \notin ValidDiagnosisCodes
       \/ body.amount < AmountMin \/ body.amount > AmountMax
    THEN [success |-> FALSE, data |-> body]
    ELSE [success |-> TRUE, data |-> [body EXCEPT !.organizationId = Null]]

\* POST /api/claims for an authenticated caller: the router's rateLimit(),
\* requireClaimsAccess, validateBody, then the controller and
\* ClaimsService.createClaim
CreateClaimRoute(r, context, body) ==
  /\ req[r].pc \in {"idle", "done"}
  /\ RateLimitCap(GetRateLimitKey(context))
  /\ LET key == GetRateLimitKey(context)
         general == RateLimit(rateLimitStore, key, now, RateLimitWindow, RateLimitMaxRequests)
         parsed == CreateClaimSchema(body)
         out == IF general.exceeded THEN "RateLimitExceeded"
                ELSE IF ~RequireRoles(ClaimsAccessRoles, context) THEN "Forbidden"
                ELSE IF ~parsed.success THEN "ValidationError"
                ELSE CreateClaimChecks(parsed.data, context)
     IN  /\ out = "insert" => Len(inserted) < MaxCreated
         /\ rateLimitStore' = Counted(general.store, key, FALSE)
         /\ inserted' = IF out = "insert"
                          THEN Append(inserted, InsertedRow(parsed.data, context))
                          ELSE inserted
         /\ req' = [req EXCEPT ![r] =
              [IdleReq EXCEPT !.pc = "done", !.op = "POST /", !.ctx = context,
                 !.input = body, !.outcome = IF out = "insert" THEN "ok" ELSE out]]
  /\ UNCHANGED <<claims, ledger, wk, faults, lastFailed, users, issued, events, queue, now>>

\* time passes
Tick ==
  /\ now < MaxNow
  /\ now' = now + 1
  /\ UNCHANGED <<claims, req, ledger, wk, faults, lastFailed, inserted, users, issued, events,
                 queue, rateLimitStore>>

---------------------------------------------------------------------------
(* Internal (trusted) repository path and the job ledger *)

\* the elements of seq that satisfy Keep, in order
RECURSIVE FilterSeq(_, _)
FilterSeq(seq, keep) ==
  IF seq = <<>> THEN <<>>
  ELSE IF Head(seq) \in keep THEN <<Head(seq)>> \o FilterSeq(Tail(seq), keep)
  ELSE FilterSeq(Tail(seq), keep)

Range(seq) == {seq[i] : i \in 1..Len(seq)}

\* a fetch that forgets the patient condition
FindByPatientIdInternalAnyPatient(patientId, organizationId, statusFilter) ==
  FilterSeq(ClaimOrder,
            { c \in ClaimIds :
                /\ claims[c].organizationId = organizationId
                /\ (statusFilter # {} => claims[c].status \in statusFilter) })

\* findByPatientIdInternal: organization AND patient AND status IN filter,
\* newest first
FindByPatientIdInternal(patientId, organizationId, statusFilter) ==
  FilterSeq(ClaimOrder,
            { c \in ClaimIds :
                /\ claims[c].organizationId = organizationId
                /\ claims[c].patientId = patientId
                /\ (statusFilter # {} => claims[c].status \in statusFilter) })

\* the rows the SELECT of updateStatusInternal returns: id AND organization
SelectInternal(id, organizationId) ==
  { c \in ClaimIds : claims[c].id = id /\ claims[c].organizationId = organizationId }

\* an UPDATE that writes the history and leaves the status column
UpdatedRowInternalHistoryOnly(cur, snap, newStatus, by, via) ==
  [cur EXCEPT
     !.statusHistory = Append(snap.statusHistory,
                              StatusChange(snap.status, newStatus, by, via))]

\* the row the UPDATE of updateStatusInternal writes: status and history only
UpdatedRowInternal(cur, snap, newStatus, by, via) ==
  [cur EXCEPT
     !.status = newStatus,
     !.statusHistory = Append(snap.statusHistory,
                              StatusChange(snap.status, newStatus, by, via))]

\* the jobs the queue delivers (the payload of each)
Job(type, org, patient, key) ==
  [type |-> type, organizationId |-> org, patientId |-> patient,
   idempotencyKey |-> key, triggeredBy |-> "system"]

Jobs ==
  { Job("patient_admission", "orgA", "p1", "k1"),
    Job("patient_discharge", "orgA", "p1", "k2"),
    Job("treatment_initiated", "orgA", "p2", "k3") }

LedgerKeys == { <<j.idempotencyKey, j.organizationId>> : j \in Jobs }

KeyOf(j) == <<j.idempotencyKey, j.organizationId>>

\* a status filter that keeps the claims a run has already moved
SourceStatusesWithTarget(type) == {"submitted", "under_review"}

\* the status filter each processor fetches with
SourceStatuses(type) ==
  CASE type = "patient_admission" -> {"submitted"}
    [] type = "patient_discharge" -> {"under_review", "submitted"}
    [] type = "treatment_initiated" -> {"submitted"}

\* every processor moving claims to review
TargetStatusAlwaysReview(type) == "under_review"

\* the status each processor moves claims to
TargetStatus(type) ==
  CASE type = "patient_admission" -> "under_review"
    [] type = "patient_discharge" -> "approved"
    [] type = "treatment_initiated" -> "under_review"

NoLog == [status |-> Null]

NoResult == [count |-> -1, claimIds |-> <<>>]

\* findByIdempotencyKey
FindByIdempotencyKey(key, organizationId) == ledger[<<key, organizationId>>]

\* the row JobProcessingLogRepository.create inserts
CreatedLog(status) == [status |-> status, result |-> NoResult, error |-> Null]

\* markCompleted: UPDATE ... SET status, result WHERE id
MarkCompleted(row, result) == [row EXCEPT !.status = "completed", !.result = result]

\* markFailed: UPDATE ... SET status, error WHERE id
MarkFailed(row, error) == [row EXCEPT !.status = "failed", !.error = error]

---------------------------------------------------------------------------
(* The processors: processPatientAdmission, processPatientDischarge and
   processTreatmentInitiated are one algorithm over (source statuses, target) *)

Workers == {"w1", "w2"}

\* no exception caught
NoError == [isError |-> FALSE, message |-> Null]

\* what the SELECT of findByPatientIdInternal throws when the database fails
FetchErrors == { [isError |-> TRUE, message |-> "Database connection failed"] }

\* what the transaction of updateStatusInternal throws when it fails
UpdateErrors == { [isError |-> TRUE, message |-> "deadlock detected"] }

\* the exceptions of the claim repository: Error objects
StorageErrors == FetchErrors \cup UpdateErrors

\* the rejection of the unique index on (idempotency key, organization)
UniqueViolation ==
  [isError |-> TRUE, message |-> "duplicate key value violates unique constraint"]

\* a catch that records no message of its own
ErrorMessageUnknown(error) == "Unknown error"

\* error instanceof Error ? error.message : 'Unknown error'
ErrorMessage(error) == IF error.isError THEN error.message ELSE "Unknown error"

IdleWk ==
  [pc |-> "idle", job |-> Job("patient_admission", "orgA", "p1", "k1"),
   list |-> <<>>, i |-> 0, snap |-> NoClaim, updated |-> <<>>,
   calls |-> <<>>, fetches |-> 0, outcome |-> Null, ret |-> NoResult,
   replay |-> FALSE, prev |-> NoFailed, error |-> NoError]

\* a lookup that never takes the row for completed
IsCompletedNever(log) == FALSE

\* a lookup that takes a failed row for a finished one
IsCompletedOrFailed(log) == log.status \in {"completed", "failed"}

\* existingLog?.status === 'completed'
IsCompleted(log) == log.status = "completed"

\* the state a run is in after its idempotency lookup returned log
AfterLookup(j, log) ==
  IF IsCompleted(log)
    THEN [IdleWk EXCEPT !.pc = "done", !.job = j, !.outcome = "returned",
                        !.ret = log.result, !.replay = TRUE]
    ELSE [IdleWk EXCEPT !.pc = IF log = NoLog THEN "create" ELSE "fetch",
                        !.job = j, !.prev = lastFailed[KeyOf(j)]]

\* the queue hands job j to worker w; the run looks the ledger row up
Start(w, j) ==
  /\ wk[w].pc \in {"idle", "done"}
  /\ wk' = [wk EXCEPT ![w] =
       AfterLookup(j, FindByIdempotencyKey(j.idempotencyKey, j.organizationId))]
  /\ lastFailed' = [lastFailed EXCEPT ![KeyOf(j)] =
       IF IsCompleted(ledger[KeyOf(j)]) THEN @ ELSE NoFailed]
  /\ UNCHANGED <<claims, req, ledger, faults, inserted, users, issued, events, queue, rateLimitStore, now>>

\* jobProcessingLogRepository.create: the unique index on (key, organization)
\* rejects a second row, and the rejection leaves the function (no try yet)
CreateLog(w) ==
  /\ wk[w].pc = "create"
  /\ IF ledger[KeyOf(wk[w].job)] = NoLog
       THEN /\ ledger' = [ledger EXCEPT ![KeyOf(wk[w].job)] = CreatedLog("processing")]
            /\ wk' = [wk EXCEPT ![w].pc = "fetch"]
       ELSE /\ wk' = [wk EXCEPT ![w].pc = "done", ![w].outcome = "threw",
                                ![w].error = UniqueViolation,
                                ![w].prev = NoFailed]
            /\ UNCHANGED ledger
  /\ UNCHANGED <<claims, req, faults, lastFailed, inserted, users, issued, events, queue, rateLimitStore, now>>

\* where the loop over the fetched claims stands after claim i
AfterClaim(list, i) == IF i >= Len(list) THEN "complete" ELSE "update"

\* claimRepository.findByPatientIdInternal(patientId, organizationId, source)
Fetch(w) ==
  /\ wk[w].pc = "fetch"
  /\ LET j == wk[w].job
         list == FindByPatientIdInternal(j.patientId, j.organizationId,
                                         SourceStatuses(j.type))
     IN  wk' = [wk EXCEPT ![w].list = list, ![w].i = 1,
                          ![w].fetches = @ + 1,
                          ![w].pc = AfterClaim(list, 0)]
  /\ UNCHANGED <<claims, req, ledger, faults, lastFailed, inserted, users, issued, events, queue, rateLimitStore, now>>

\* the fetch throws (a storage failure)
FetchFails(w) ==
  /\ wk[w].pc = "fetch"
  /\ faults < MaxFaults
  /\ faults' = faults + 1
  /\ \E e \in FetchErrors :
       wk' = [wk EXCEPT ![w].pc = "catch", ![w].fetches = @ + 1, ![w].error = e]
  /\ UNCHANGED <<claims, req, ledger, lastFailed, inserted, users, issued, events, queue, rateLimitStore, now>>

\* updateStatusInternal up to its UPDATE: null when the row is not found or is
\* approved / paid, else on to the UPDATE
InternalSelect(w) ==
  /\ wk[w].pc = "update"
  /\ LET j == wk[w].job
         id == wk[w].list[wk[w].i]
         rows == SelectInternal(id, j.organizationId)
         skip == rows = {} \/ ~IsModifiable(claims[id].status)
     IN  /\ ~skip => Len(claims[id].statusHistory) < MaxHist
         /\ wk' = [wk EXCEPT
              ![w].calls = Append(@, id),
              ![w].snap = IF skip THEN NoClaim ELSE claims[id],
              ![w].i = IF skip THEN @ + 1 ELSE @,
              ![w].pc = IF skip THEN AfterClaim(wk[w].list, wk[w].i) ELSE "updwrite"]
  /\ UNCHANGED <<claims, req, ledger, faults, lastFailed, inserted, users, issued, events, queue, rateLimitStore, now>>

\* the UPDATE of updateStatusInternal and its commit; the run records the id
InternalUpdate(w) ==
  /\ wk[w].pc = "updwrite"
  /\ LET j == wk[w].job
         id == wk[w].list[wk[w].i]
     IN  /\ claims' = [claims EXCEPT ![id] =
               UpdatedRowInternal(@, wk[w].snap, TargetStatus(j.type),
                                  j.triggeredBy, j.idempotencyKey)]
         /\ wk' = [wk EXCEPT ![w].updated = Append(@, id), ![w].snap = NoClaim,
                             ![w].i = @ + 1,
                             ![w].pc = AfterClaim(wk[w].list, wk[w].i)]
         /\ lastFailed' = [k \in DOMAIN lastFailed |->
               IF k = KeyOf(j) THEN lastFailed[k] ELSE NoFailed]
  /\ UNCHANGED <<req, ledger, faults, inserted, users, issued, events, queue, rateLimitStore, now>>

\* a loop that swallows the exception of one claim and goes on to the next
ThrownInLoopContinues(run, e) ==
  [run EXCEPT !.calls = Append(@, run.list[run.i]), !.i = @ + 1,
              !.pc = AfterClaim(run.list, run.i)]

\* the call on claim i throws: the exception leaves the loop for the catch
ThrownInLoop(run, e) ==
  [run EXCEPT !.pc = "catch", !.error = e, !.calls = Append(@, run.list[run.i])]

\* updateStatusInternal throws (a storage failure): nothing is written
UpdateFails(w) ==
  /\ wk[w].pc = "update"
  /\ faults < MaxFaults
  /\ faults' = faults + 1
  /\ \E e \in UpdateErrors : wk' = [wk EXCEPT ![w] = ThrownInLoop(@, e)]
  /\ UNCHANGED <<claims, req, ledger, lastFailed, inserted, users, issued, events, queue, rateLimitStore, now>>

\* the result payload of a run
Result(updated) == [count |-> Len(updated), claimIds |-> updated]

\* markCompleted(jobLog.id, result) and return result
Complete(w) ==
  /\ wk[w].pc = "complete"
  /\ ledger' = [ledger EXCEPT ![KeyOf(wk[w].job)] = MarkCompleted(@, Result(wk[w].updated))]
  /\ wk' = [wk EXCEPT ![w].pc = "done", ![w].outcome = "returned",
                      ![w].ret = Result(wk[w].updated),
                      ![w].list = <<>>, ![w].i = 0, ![w].updated = <<>>]
  /\ UNCHANGED <<claims, req, faults, lastFailed, inserted, users, issued, events, queue, rateLimitStore, now>>

\* catch: markFailed(jobLog.id, message) and rethrow of the caught error
Catch(w) ==
  /\ wk[w].pc = "catch"
  /\ ledger' = [ledger EXCEPT ![KeyOf(wk[w].job)] = MarkFailed(@, ErrorMessage(wk[w].error))]
  /\ wk' = [wk EXCEPT ![w].pc = "done", ![w].outcome = "threw",
                      ![w].list = <<>>, ![w].i = 0, ![w].updated = <<>>,
                      ![w].prev = NoFailed]
  /\ lastFailed' = [lastFailed EXCEPT ![KeyOf(wk[w].job)] =
       [valid |-> wk[w].i > 0, fetched |-> wk[w].list, updated |-> wk[w].updated]]
  /\ UNCHANGED <<claims, req, faults, inserted, users, issued, events, queue, rateLimitStore, now>>

---------------------------------------------------------------------------
(* Specifications *)

Init ==
  /\ claims = [c \in ClaimIds |-> NewClaim(c)]
  /\ req = [r \in Reqs |-> IdleReq]
  /\ ledger = [k \in LedgerKeys |-> NoLog]
  /\ wk = [w \in Workers |-> IdleWk]
  /\ faults = 0
  /\ lastFailed = [k \in LedgerKeys |-> NoFailed]
  /\ inserted = <<>>
  /\ users = UserSeed
  /\ issued = {}
  /\ events = <<>>
  /\ queue = <<>>
  /\ rateLimitStore = <<>>
  /\ now = 0

\* the synchronous side, one request at a time
NextGateway ==
  \/ \E c \in Contexts, id \in RequestIds, s \in RequestStatuses :
       UpdateStatusBegin("r1", c, id, s)
  \/ UpdateStatusCommit("r1")
  \/ \E c \in Contexts, id \in ReadIds : GetClaimById("r1", c, id)

SpecGateway == Init /\ [][NextGateway]_vars

\* the callers of the scoping scenario and the updates they ask for: every
\* caller on c1 and on an id without a row, and the processor on c2, a claim
\* of their assigned set that is not assigned to them
ScopeContexts == Contexts \cup {ProcessorOther}

ScopeRequests ==
  (ScopeContexts \X {"c1", MissingId}) \cup {<<ProcessorA, "c2">>}

\* the synchronous side with one claim under change and every kind of caller
NextScope ==
  \/ \E q \in ScopeRequests, s \in RequestStatuses :
       UpdateStatusBegin("r1", q[1], q[2], s)
  \/ UpdateStatusCommit("r1")
  \/ \E c \in ScopeContexts, id \in ReadIds : GetClaimById("r1", c, id)

SpecScope == Init /\ [][NextScope]_vars

\* claim creation by an admin, a provider and a patient
CreateContexts == {AdminA, ProviderA, PatientA}

NextCreate ==
  \E c \in CreateContexts, input \in CreateInputs : CreateClaim("r1", c, input)

SpecCreate == Init /\ [][NextCreate]_vars

\* bulk updates, one call at a time
BulkContexts == {AdminA, ProcessorA, ProviderA}

NextBulk ==
  \/ \E c \in BulkContexts, ids \in BulkIdLists, s \in {"under_review", "approved"} :
       BulkBegin("r1", c, ids, s)
  \/ BulkSelect("r1")
  \/ BulkCommit("r1")

SpecBulk == Init /\ [][NextBulk]_vars

\* the mutating operations of the gateway called by each role
PolicyContexts == {AdminA, ProcessorA, ProviderA, PatientA}

PolicyInputs ==
  { i \in CreateInputs : /\ i.patientId = "p1" /\ i.providerId \in {"pr1", "pr2"}
                          /\ i.diagnosisCode = "J06.9" /\ i.amount = 15000
                          /\ i.organizationId = Null }

NextPolicy ==
  \/ \E c \in PolicyContexts, data \in PolicyInputs : Create("r1", c, data)
  \/ \E c \in PolicyContexts : UpdateStatusBegin("r1", c, "c1", "under_review")
  \/ UpdateStatusCommit("r1")
  \/ \E c \in PolicyContexts : BulkBegin("r1", c, <<"c1", "c2">>, "approved")
  \/ BulkSelect("r1")
  \/ BulkCommit("r1")

SpecPolicy == Init /\ [][NextPolicy]_vars

\* requests made with credentials while the user row changes
NextAuth ==
  \/ Login("u2")
  \/ \E set \in AssignmentSets : UpdateAssignedClaims("u2", set)
  \/ \E b \in BOOLEAN : UpdateUserActive("u2", b)
  \/ \E payload \in issued, id \in {"c1", "c2"} : AuthenticatedGetClaim("r1", payload, id)

SpecAuth == Init /\ [][NextAuth]_vars

\* createStatusEvent calls of two organizations, two at a time
EventContexts == {AdminA, AdminB}

NextEvents ==
  \E r \in Reqs :
    \/ \E c \in EventContexts, input \in EventInputs : EventBegin(r, c, input)
    \/ EventInsert(r)
    \/ EventEnqueue(r)
    \/ EventEnqueueFails(r)

SpecEvents == Init /\ [][NextEvents]_vars

\* two requests on one claim running concurrently
NextRace ==
  \/ \E r \in Reqs, c \in {AdminA, ProcessorA}, s \in RequestStatuses :
       UpdateStatusBegin(r, c, "c1", s)
  \/ \E r \in Reqs : UpdateStatusCommit(r)

SpecRace == Init /\ [][NextRace]_vars

\* the jobs delivered while executions overlap
RacingJobs == { j \in Jobs : j.idempotencyKey \in {"k1", "k2"} }

WorkerStep(w, jobs) ==
  \/ \E j \in jobs : Start(w, j)
  \/ CreateLog(w)
  \/ Fetch(w)
  \/ FetchFails(w)
  \/ InternalSelect(w)
  \/ InternalUpdate(w)
  \/ UpdateFails(w)
  \/ Complete(w)
  \/ Catch(w)

\* the data of a queued job as processJob hands it to a processor
AsJob(queued) ==
  [type |-> queued.type, organizationId |-> queued.organizationId,
   patientId |-> queued.patientId, idempotencyKey |-> queued.idempotencyKey,
   triggeredBy |-> queued.triggeredBy]

\* the jobs the queue holds
QueuedJobs == { AsJob(queue[i]) : i \in 1..Len(queue) }

\* a status event of an orgA patient from its creation to the run of its job:
\* the request, the queue, one worker
PipelineInputs == { i \in EventInputs : i.patientId = "p1" }

NextPipeline ==
  \/ \E input \in PipelineInputs : EventBegin("r1", AdminA, input)
  \/ EventInsert("r1")
  \/ EventEnqueue("r1")
  \/ EventEnqueueFails("r1")
  \/ WorkerStep("w1", QueuedJobs)

SpecPipeline == Init /\ [][NextPipeline]_vars

\* the same with callers that keep sending the request, a database and a queue
\* that answer, and a worker that keeps running
SpecPipelineFair ==
  /\ SpecPipeline
  /\ \A input \in PipelineInputs : WF_vars(EventBegin("r1", AdminA, input))
  /\ WF_vars(EventInsert("r1"))
  /\ WF_vars(EventEnqueue("r1"))
  /\ WF_vars(WorkerStep("w1", QueuedJobs))

\* status updates one after another by an admin and by a processor whose
\* assigned set holds c1 (assigned to them) and c2 (assigned to nobody)
UpdateContexts == {AdminA, ProcessorA}

NextUpdates ==
  \/ \E c \in UpdateContexts, id \in {"c1", "c2"}, s \in ClaimStatus \ {"submitted"} :
       UpdateStatusBegin("r1", c, id, s)
  \/ UpdateStatusCommit("r1")

SpecUpdates == Init /\ [][NextUpdates]_vars

\* the patients whose claims are asked for
PatientIds == {"p1", "p2", "p3"}

\* reads by patient id by every kind of caller, while an admin changes claims
NextPatientReads ==
  \/ \E c \in Contexts, p \in PatientIds : FindByPatientIdCall("r1", c, p)
  \/ \E id \in {"c1", "c3"}, s \in {"under_review", "rejected"} :
       UpdateStatusBegin("r1", AdminA, id, s)
  \/ UpdateStatusCommit("r1")

SpecPatientReads == Init /\ [][NextPatientReads]_vars

\* events of two patients of orgA, created by an admin and read by an admin, by
\* the patient p1 and by an admin of orgB
HistoryInputs ==
  [patientId : {"p1", "p2"}, statusType : {"admission"}, idempotencyKey : {"e1", "e2"}]

HistoryContexts == {AdminA, PatientA, AdminB}

NextHistory ==
  \/ \E input \in HistoryInputs : EventBegin("r1", AdminA, input)
  \/ EventInsert("r1")
  \/ EventEnqueue("r1")
  \/ \E c \in HistoryContexts, p \in {"p1", "p2"} : GetPatientHistory("r1", c, p)
  \/ \E c \in HistoryContexts, id \in 1..2 : GetStatusEvent("r1", c, id)

SpecHistory == Init /\ [][NextHistory]_vars

\* claims posted by an admin and by a provider, for the provider's own id and
\* for another provider
RouteInputs ==
  { i \in CreateInputs :
      /\ i.patientId = "p1" /\ i.providerId \in {"pr1", "pr2"}
      /\ i.amount = 15000 /\ i.organizationId = Null }

NextCreateRoute ==
  \E c \in {AdminA, ProviderA}, body \in RouteInputs : CreateClaimRoute("r1", c, body)

SpecCreateRoute == Init /\ [][NextCreateRoute]_vars

\* one user's requests to the claims routes through the rate limiters, over
\* more than one window
NextRate ==
  \/ GetClaimRoute("r1", AdminA, "c1")
  \/ BulkStatusUpdateRoute("r1", AdminA, <<"c1">>, "approved")
  \/ BulkSelect("r1")
  \/ BulkCommit("r1")
  \/ Tick

SpecRate == Init /\ [][NextRate]_vars

\* the asynchronous side: the worker pool, executions running concurrently
NextJobs == \E w \in Workers : WorkerStep(w, RacingJobs)

SpecJobs == Init /\ [][NextJobs]_vars

\* the worker pool with one execution in flight at a time, every job
NextSeq ==
  \E w \in Workers :
    /\ \A v \in Workers \ {w} : wk[v].pc \in {"idle", "done"}
    /\ WorkerStep(w, Jobs)

SpecSeq == Init /\ [][NextSeq]_vars

\* the job the queue keeps redelivering in the retry scenario
LiveJobs == {j \in Jobs : j.idempotencyKey = "k1"}

NextLive == \E w \in Workers : WorkerStep(w, LiveJobs)

\* the steps of worker w that are not storage failures
Progress(w) ==
  \/ CreateLog(w)
  \/ Fetch(w)
  \/ InternalSelect(w)
  \/ InternalUpdate(w)
  \/ Complete(w)
  \/ Catch(w)

\* a started execution runs to its end, the queue redelivers every job again
\* and again, and storage fails at most MaxFaults times
SpecLive ==
  /\ Init
  /\ [][NextLive]_vars
  /\ \A w \in Workers : WF_vars(Progress(w))
  /\ \A j \in LiveJobs : SF_vars(\E w \in Workers : Start(w, j))

\* the three writers of the claims table side by side: status updates of c1
\* and claim creations by requests, overlapping a processor run for c1's patient
MixedInputs ==
  { i \in CreateInputs : /\ i.patientId = "p1" /\ i.providerId = "pr1"
                          /\ i.amount = 15000 /\ i.organizationId = Null }

NextMixed ==
  \/ \E s \in {"under_review", "approved"} : UpdateStatusBegin("r1", AdminA, "c1", s)
  \/ UpdateStatusCommit("r1")
  \/ WorkerStep("w1", LiveJobs)
  \/ \E input \in MixedInputs : CreateClaim("r1", ProviderA, input)

SpecMixed == Init /\ [][NextMixed]_vars

---------------------------------------------------------------------------
(* Properties *)

Terminal == {"approved", "paid"}

\* request slot r takes the first step of an updateStatus call
BeginsUpdate(r) ==
  /\ req[r].pc \in {"idle", "done"}
  /\ req'[r] # req[r]
  /\ req'[r].op = "updateStatus"

\* no SELECT of the gateway keeps a row of another organization
ForeignRowNeverSelected ==
  \A e \in ClaimIds, c \in AllContexts :
    c.organizationId # claims[e].organizationId => SelectById(claims, e, c) = {}

\* C1 - tenant isolation: for a claim of organization A and a context of
\* another organization, whatever its role and scoping data, findById returns
\* no claim and getClaimById reports NotFound
C1_TenantIsolation ==
  /\ ForeignRowNeverSelected
  /\ \A r \in Reqs :
       (/\ req[r].op = "findById"
        /\ req[r].id \in ClaimIds
        /\ req[r].ctx.organizationId # claims[req[r].id].organizationId)
       => /\ FindById(req[r].id, req[r].ctx) = NoClaim
          /\ req[r].outcome = "NotFound"

MayUpdate(context, id) ==
  /\ context.organizationId = ClaimSeed[id].organizationId
  /\ \/ context.role = "admin"
     \/ /\ context.role = "claims_processor"
        /\ context.assignedClaimIds # None
        /\ id \in context.assignedClaimIds[1]

C7_TerminalFrozen ==
  [][\A c \in ClaimIds :
       claims[c].status \in Terminal
       => /\ claims'[c].status = claims[c].status
          /\ claims'[c].statusHistory = claims[c].statusHistory]_vars

\* C10 - a claims_processor context with an empty or absent assignment set
\* reaches no claim: findById, findMany, count, sumAmount and updateStatus
\* answer as on an organization without claims
C10_EmptyAssignmentNoAccess ==
  /\ \A c \in AllContexts :
       (c.role = "claims_processor" /\ c.assignedClaimIds \in {None, Some({})})
       => /\ FindMany(c) = {}
          /\ Count(c) = 0
          /\ SumAmount(c) = 0
          /\ \A id \in ClaimIds \cup {MissingId} : SelectById(claims, id, c) = {}
  /\ \A r \in Reqs :
       (req[r].pc = "done" /\ req[r].ctx = ProcessorNew)
       => /\ ~QueryRaises(req[r].ctx)
          /\ req[r].outcome = "NotFound"

JobOfKey(k) == CHOOSE j \in Jobs : j.idempotencyKey = k

Keys == {j.idempotencyKey : j \in Jobs}

\* the entries of claim c's history written under idempotency key k
EntriesOf(c, k) ==
  {i \in DOMAIN claims[c].statusHistory : claims[c].statusHistory[i].via = k}

InScope(c, j) ==
  /\ claims[c].organizationId = j.organizationId
  /\ claims[c].patientId = j.patientId

\* C2 - a processor run for organization O and patient P fetches, and changes
\* the status and history of, only claims of organization O and patient P
C2_JobStaysInScope ==
  /\ \A c \in ClaimIds, k \in Keys : EntriesOf(c, k) # {} => InScope(c, JobOfKey(k))
  /\ \A w \in Workers : \A c \in Range(wk[w].list) : InScope(c, wk[w].job)
  /\ \A c \in ClaimIds :
       (\A j \in RacingJobs : ~InScope(c, j)) => claims[c] = NewClaim(c)

\* the admission job of patient p1 has moved both claims of p1
C2_Witness ==
  /\ EntriesOf("c1", "k1") # {} /\ EntriesOf("c2", "k1") # {}
  /\ claims["c3"] = NewClaim("c3") /\ claims["c6"] = NewClaim("c6")

\* worker w takes the first step of a processor execution
StartsRun(w) == wk[w].pc \in {"idle", "done"} /\ wk'[w] # wk[w]

\* C3 - idempotent replay: an execution that finds the ledger row of its key
\* completed returns the stored result, fetches no claim, calls no update and
\* changes neither claims nor ledger
C3_IdempotentReplay ==
  [][\A w \in Workers :
       (StartsRun(w) /\ ledger[KeyOf(wk'[w].job)].status = "completed")
       => /\ wk'[w].pc = "done"
          /\ wk'[w].outcome = "returned"
          /\ wk'[w].ret = ledger[KeyOf(wk'[w].job)].result
          /\ wk'[w].fetches = 0
          /\ wk'[w].calls = <<>>
          /\ claims' = claims
          /\ ledger' = ledger]_vars

\* a second execution of the admission job has returned the stored result of
\* two updated claims without fetching or updating
C3_Witness ==
  \E w \in Workers :
    /\ wk[w].replay /\ wk[w].pc = "done"
    /\ wk[w].job.idempotencyKey = "k1"
    /\ wk[w].ret = [count |-> 2, claimIds |-> <<"c1", "c2">>]
    /\ wk[w].fetches = 0 /\ wk[w].calls = <<>>

\* C4 - no double-applied effect: each claim holds at most one status-history
\* entry written under one idempotency key
C4_AtMostOneEntryPerKey ==
  \A c \in ClaimIds, k \in Keys : Cardinality(EntriesOf(c, k)) <= 1

\* C5 - a ledger row that is completed stays completed with the same result
C5_CompletedFrozen ==
  [][\A k \in LedgerKeys :
       ledger[k].status = "completed"
       => /\ ledger'[k].status = "completed"
          /\ ledger'[k].result = ledger[k].result]_vars

\* the elements of seq outside drop, in order
Without(seq, drop) == FilterSeq(seq, Range(seq) \ Range(drop))

\* C8 - partial-failure convergence: the run that follows a run which failed
\* after updating k of the n claims it fetched, no other writer in between,
\* calls the update path for exactly the other n-k claims and leaves the
\* ledger row completed
C8_RetryUpdatesTheRest ==
  \A w \in Workers :
    (/\ wk[w].pc = "done" /\ wk[w].outcome = "returned" /\ ~wk[w].replay
     /\ wk[w].prev.valid)
    => /\ wk[w].calls = Without(wk[w].prev.fetched, wk[w].prev.updated)
       /\ wk[w].ret.claimIds = wk[w].calls
       /\ ledger[KeyOf(wk[w].job)].status = "completed"

\* the retry of a run that failed after updating one of three claims has
\* updated the other two
C8_Witness ==
  \E w \in Workers :
    /\ wk[w].pc = "done" /\ wk[w].outcome = "returned"
    /\ wk[w].prev.valid
    /\ Len(wk[w].prev.fetched) = 3 /\ Len(wk[w].prev.updated) = 1
    /\ Len(wk[w].calls) = 2
    /\ ledger[KeyOf(wk[w].job)].status = "completed"

\* the job of key k has finished: ledger row completed, and every claim of
\* its patient is in the processor's target status
Converged(k) ==
  /\ ledger[KeyOf(JobOfKey(k))].status = "completed"
  /\ \A c \in ClaimIds :
       InScope(c, JobOfKey(k)) => claims[c].status = TargetStatus(JobOfKey(k).type)

\* C9 - liveness of retries: while the queue keeps redelivering the job and
\* storage failures stop, the ledger row of the key becomes completed with
\* every claim of the patient moved from the source to the target status
C9_RetriesConverge == \A j \in LiveJobs : <>Converged(j.idempotencyKey)

\* the admission job has converged in a run that retried a failed one
C9_Witness ==
  /\ Converged("k1")
  /\ faults > 0
  /\ \E w \in Workers :
       /\ wk[w].job.idempotencyKey = "k1" /\ wk[w].outcome = "returned"
       /\ wk[w].prev.valid /\ ~wk[w].replay

\* the claims the role rules give a context: those of its organization that
\* its role and scoping data admit
Admitted(context) ==
  { c \in ClaimIds :
      /\ claims[c].organizationId = context.organizationId
      /\ \/ context.role = "admin"
         \/ /\ context.role = "claims_processor"
            /\ context.assignedClaimIds # None
            /\ c \in context.assignedClaimIds[1]
         \/ /\ context.role = "provider"
            /\ context.providerId # Null
            /\ claims[c].providerId = context.providerId
         \/ /\ context.role = "patient"
            /\ context.patientId # Null
            /\ claims[c].patientId = context.patientId }

RECURSIVE AmountOf(_)
AmountOf(ids) ==
  IF ids = {} THEN 0
  ELSE LET c == CHOOSE x \in ids : TRUE IN ClaimSeed[c].amount + AmountOf(ids \ {c})

ValidUpToProvider(input, context) ==
  /\ input.diagnosisCode \in ValidDiagnosisCodes
  /\ input.amount >= AmountMin /\ input.amount <= AmountMax
  /\ PatientExists(input.patientId, context)

\* C12 - createClaim by a provider for a provider id other than their own fails
\* with Forbidden, before any lookup of that provider: also for a provider id
\* that does not exist
C12_ProviderSelfCheckFirst ==
  \A r \in Reqs :
    (/\ req[r].op = "createClaim"
     /\ req[r].ctx.role = "provider"
     /\ ValidUpToProvider(req[r].input, req[r].ctx)
     /\ req[r].input.providerId # req[r].ctx.providerId)
    => req[r].outcome = "Forbidden"

\* claim id exists and lies outside the tenant or role scope of the context
OutOfScope(id, context) == id \in ClaimIds /\ id \notin Admitted(context)

\* C13 - no enumeration: for a claim that exists outside the caller's tenant or
\* role scope, getClaimById and updateClaimStatus end as they do for an id
\* without a row (same error kind), and the update writes nothing
C13_NoEnumeration ==
  /\ \A c \in AllContexts \cup ScopeContexts, id \in ClaimIds :
       OutOfScope(id, c)
       => /\ GetClaimByIdOutcome(id, c) = GetClaimByIdOutcome(MissingId, c)
          /\ UpdateStatusChecks(claims, id, c) = UpdateStatusChecks(claims, MissingId, c)
  /\ \A r \in Reqs :
       (req[r].op \in {"findById", "updateStatus"} /\ OutOfScope(req[r].id, req[r].ctx))
       => /\ req[r].pc = "done"
          /\ req[r].outcome =
               IF req[r].op = "findById"
                 THEN GetClaimByIdOutcome(MissingId, req[r].ctx)
                 ELSE UpdateStatusChecks(claims, MissingId, req[r].ctx)

\* a processor has tried to update the approved claim c1, which is not in
\* their assigned set, and got what the same call gets for an id without a row
C13_Witness ==
  /\ req["r1"].op = "updateStatus" /\ req["r1"].ctx = ProcessorOther
  /\ req["r1"].id = "c1" /\ req["r1"].outcome = "NotFound"
  /\ claims["c1"].status = "approved"
  /\ UpdateStatusChecks(claims, MissingId, ProcessorOther) = "NotFound"
  /\ GetClaimByIdOutcome("c1", AdminB) = "NotFound"

\* the assigned set of a context, empty when it has none
AssignedSet(context) ==
  IF context.assignedClaimIds = None THEN {} ELSE context.assignedClaimIds[1]

\* C14 - updateStatus by a claims_processor on a claim of their organization
\* whose id is not in their assigned set reports NotFound, whatever the claim's
\* status, and writes nothing
C14_UnassignedIsNotFound ==
  \A r \in Reqs :
    (/\ req[r].op = "updateStatus"
     /\ req[r].ctx.role = "claims_processor"
     /\ req[r].id \in ClaimIds
     /\ claims[req[r].id].organizationId = req[r].ctx.organizationId
     /\ req[r].id \notin AssignedSet(req[r].ctx))
    => (req[r].pc = "done" /\ req[r].outcome = "NotFound")

\* the same for the processors whose assigned set is not empty
UnassignedIsNotFoundNonEmpty ==
  \A r \in Reqs :
    (/\ req[r].op = "updateStatus"
     /\ req[r].ctx.role = "claims_processor"
     /\ AssignedSet(req[r].ctx) # {}
     /\ req[r].id \in ClaimIds
     /\ claims[req[r].id].organizationId = req[r].ctx.organizationId
     /\ req[r].id \notin AssignedSet(req[r].ctx))
    => (req[r].pc = "done" /\ req[r].outcome = "NotFound")

\* worker w takes the step that creates its ledger row
CreatesLog(w) == wk[w].pc = "create" /\ wk'[w] # wk[w]

\* C15 - of two executions that both saw no ledger row and both create one,
\* the one that loses the uniqueness conflict does not fail: it goes on from
\* the existing row (returns its result if completed, otherwise processes)
C15_ConflictLoserProceeds ==
  [][\A w \in Workers :
       (CreatesLog(w) /\ ledger[KeyOf(wk[w].job)] # NoLog)
       => IF IsCompleted(ledger[KeyOf(wk[w].job)])
            THEN /\ wk'[w].pc = "done"
                 /\ wk'[w].outcome = "returned"
                 /\ wk'[w].ret = ledger[KeyOf(wk[w].job)].result
            ELSE wk'[w].pc = "fetch"]_vars

\* request slot r commits the UPDATE of its updateStatus call
CommitsUpdate(r) == req[r].pc = "write" /\ req'[r].pc = "done"

\* history h2 is history h1 with one more entry, whose fromStatus is from
ExtendsByOne(h1, h2, from) ==
  /\ Len(h2) = Len(h1) + 1
  /\ SubSeq(h2, 1, Len(h1)) = h1
  /\ h2[Len(h2)].fromStatus = from

\* C16 - per-claim serialization: an update that succeeds while another update
\* of the same claim runs adds its entry after the entries already stored, its
\* fromStatus being the stored status: no entry is lost or overwritten
C16_UpdatesSerialized ==
  [][\A r \in Reqs :
       CommitsUpdate(r)
       => ExtendsByOne(claims[req[r].id].statusHistory,
                       claims'[req[r].id].statusHistory,
                       claims[req[r].id].status)]_vars

\* the last entry of a row's status history records the row's status
StatusMatchesHistory(row) ==
  /\ Len(row.statusHistory) >= 1
  /\ row.statusHistory[Len(row.statusHistory)].toStatus = row.status

\* C17 - atomic status update: in every state, each stored claim's status is
\* the toStatus of the last entry of its history (created claims included)
C17_StatusAndHistoryTogether ==
  /\ \A c \in ClaimIds : StatusMatchesHistory(claims[c])
  /\ \A i \in DOMAIN inserted : StatusMatchesHistory(inserted[i])

\* c1 was approved by a request and holds an entry of the admission job, c2 was
\* moved by the job, and a claim has been created
C17_Witness ==
  /\ claims["c1"].status = "approved"
  /\ \E i \in DOMAIN claims["c1"].statusHistory : claims["c1"].statusHistory[i].via = "k1"
  /\ claims["c2"].status = "under_review"
  /\ Len(inserted) >= 1

\* the entry a step has put last in claim c's history
LastEntry(row) == row.statusHistory[Len(row.statusHistory)]

\* worker w commits the UPDATE of an updateStatusInternal call
CommitsInternal(w) == wk[w].pc = "updwrite" /\ wk'[w].pc # "updwrite"

\* C18 - append-only history: a successful updateStatus or updateStatusInternal
\* adds exactly one entry to the stored history (from the status before, to the
\* requested status, by the caller) and leaves the earlier entries as they
\* were; a call that fails or is skipped changes nothing
C18_AppendOnlyHistory ==
  [][/\ \A c \in ClaimIds :
          claims'[c] # claims[c]
          => /\ ExtendsByOne(claims[c].statusHistory, claims'[c].statusHistory,
                             claims[c].status)
             /\ LastEntry(claims'[c]).toStatus = claims'[c].status
     /\ \A r \in Reqs :
          CommitsUpdate(r)
          => /\ LastEntry(claims'[req[r].id]).toStatus = req[r].newStatus
             /\ LastEntry(claims'[req[r].id]).changedBy = req[r].ctx.userId
     /\ \A w \in Workers :
          CommitsInternal(w)
          => LET id == wk[w].list[wk[w].i]
             IN  /\ LastEntry(claims'[id]).toStatus = TargetStatus(wk[w].job.type)
                 /\ LastEntry(claims'[id]).changedBy = wk[w].job.triggeredBy
     /\ (\A r \in Reqs : ~CommitsUpdate(r)) /\ (\A w \in Workers : ~CommitsInternal(w))
          => claims' = claims]_vars


\* a bulk call of slot r1 that went through its whole list
BulkDone ==
  /\ req["r1"].op = "bulkUpdateStatus"
  /\ req["r1"].pc = "done"
  /\ req["r1"].outcome = "ok"

\* the list names no id twice
Distinct(ids) == \A i, j \in 1..Len(ids) : ids[i] = ids[j] => i = j

\* the claim a successful updateStatus of this call leaves behind
BulkUpdated(row, slot) ==
  /\ row.status = slot.newStatus
  /\ row.statusHistory =
       Append(slot.bulk.before[row.id].statusHistory,
              StatusChange(slot.bulk.before[row.id].status, slot.newStatus,
                           slot.ctx.userId, "request"))

\* what C19 says of a finished bulk call: updated and failed split the
\* requested ids, the updated claims carry the new status, the failed and the
\* unrequested claims are as the call found them
BulkSplits(slot) ==
  LET b == slot.bulk
  IN  /\ Range(b.updated) \cup Range(b.failed) = Range(b.ids)
      /\ Range(b.updated) \cap Range(b.failed) = {}
      /\ \A id \in Range(b.updated) : BulkUpdated(claims[id], slot)
      /\ \A id \in ClaimIds \ Range(b.updated) : claims[id] = b.before[id]

\* C19 as stated: bulkUpdateStatus by a permitted role puts every requested id
\* in exactly one of updated and failed, the claims in updated carry the new
\* status and the claims in failed are unchanged, whatever ids are requested.
C19_BulkSplitsAnyList == BulkDone => BulkSplits(req["r1"])

\* for a list that names no id twice the split holds: every requested id is in
\* exactly one of updated and failed, the claims in updated carry the new
\* status with one new history entry, the others are unchanged; for any list
\* every position is accounted for in updated or failed
BulkSplitsDistinctList ==
  BulkDone =>
    /\ Len(req["r1"].bulk.updated) + Len(req["r1"].bulk.failed)
         = Len(req["r1"].bulk.ids)
    /\ Distinct(req["r1"].bulk.ids) => BulkSplits(req["r1"])


\* worker w leaves its catch block in this step
LeavesCatch(w) == wk[w].pc = "catch" /\ wk'[w].pc # "catch"

UpdateThrows(w) == wk[w].pc = "update" /\ faults' # faults /\ wk'[w] # wk[w]

\* the claims a run has updated carry the run's target and the run's entry
KeepsItsUpdates(run, tbl) ==
  \A id \in Range(run.updated) :
    /\ tbl[id].status = TargetStatus(run.job.type)
    /\ LastEntry(tbl[id]).toStatus = TargetStatus(run.job.type)
    /\ LastEntry(tbl[id]).via = run.job.idempotencyKey

Current(w) == wk[w].list[wk[w].i]

\* worker w's updateStatusInternal call returns in this step, on a claim that
\* is approved or paid
MeetsFinalised(w) ==
  /\ wk[w].pc = "update"
  /\ wk'[w] # wk[w]
  /\ faults' = faults
  /\ claims[Current(w)].status \in {"approved", "paid"}

\* worker w's run returns its result in this step
ReturnsResult(w) == wk[w].pc = "complete" /\ wk'[w].pc = "done"

\* C22: updateStatusInternal on a claim whose status is approved or paid
\* returns no claim, throws nothing and changes nothing: the run goes on with
\* the next claim or to its completion and does not record the claim; a run
\* that completes returns the claims it recorded, so that claim is not listed.
C22_FinalisedClaimSkipped ==
  [][\A w \in Workers :
       /\ MeetsFinalised(w) =>
            /\ claims' = claims
            /\ wk'[w].error = NoError
            /\ wk'[w].pc = AfterClaim(wk[w].list, wk[w].i)
            /\ wk'[w].updated = wk[w].updated
            /\ Current(w) \notin Range(wk[w].updated)
       /\ ReturnsResult(w) =>
            /\ wk'[w].outcome = "returned"
            /\ wk'[w].ret = Result(wk[w].updated)
            /\ ledger'[KeyOf(wk[w].job)].status = "completed"]_vars

\* a completed admission run that called the update on c1 when another run
\* had approved it: c1 is not in its result and is still approved
C22_Witness ==
  \E w \in Workers :
    /\ wk[w].pc = "done"
    /\ wk[w].outcome = "returned"
    /\ ~wk[w].replay
    /\ wk[w].job.type = "patient_admission"
    /\ "c1" \in Range(wk[w].calls)
    /\ "c1" \notin Range(wk[w].ret.claimIds)
    /\ claims["c1"].status = "approved"
    /\ LastEntry(claims["c1"]).via # wk[w].job.idempotencyKey


\* the ledger status changes the state machine allows; a row is inserted as
\* processing
LedgerMoves ==
  { <<Null, "pending">>, <<Null, "processing">>, <<"pending", "processing">>,
    <<"processing", "completed">>, <<"processing", "failed">>,
    <<"failed", "processing">> }

\* the positions at which an execution works under its ledger row
Executing == {"fetch", "update", "updwrite", "complete", "catch"}

\* C23: a ledger row's status changes only along pending -> processing ->
\* {completed | failed} (a failed row going back to processing for a retry),
\* and a row is in processing whenever a processor executes under it.
C23_LedgerStateMachine ==
  [][/\ \A k \in LedgerKeys :
          ledger'[k].status # ledger[k].status =>
            <<ledger[k].status, ledger'[k].status>> \in LedgerMoves
     /\ \A w \in Workers :
          (wk'[w] # wk[w] /\ wk'[w].pc \in Executing) =>
            ledger'[KeyOf(wk'[w].job)].status = "processing"]_vars


\* the transitions of the claim state machine; rejected -> paid is counted as
\* allowed, which only weakens the property
ValidTransitions ==
  { <<"submitted", "under_review">>, <<"under_review", "approved">>,
    <<"under_review", "rejected">>, <<"approved", "paid">>, <<"rejected", "paid">> }

\* C24: a claim's status changes only along submitted -> under_review ->
\* approved | rejected -> paid: every write to a claim is one of these
\* transitions, and an updateStatus call that asks for any other transition
\* (a transition to the current status included) is rejected and leaves the
\* claim unchanged.
C24_ClaimStateMachine ==
  [][/\ \A id \in ClaimIds :
          claims'[id] # claims[id] =>
            <<claims[id].status, claims'[id].status>> \in ValidTransitions
     /\ \A r \in Reqs :
          (/\ BeginsUpdate(r)
           /\ req'[r].id \in ClaimIds
           /\ <<claims[req'[r].id].status, req'[r].newStatus>> \notin ValidTransitions)
          => (req'[r].pc = "done" /\ req'[r].outcome # "ok")]_vars

\* C25: approved -> paid is a valid transition: an updateStatus to paid by an
\* admin of the claim's organization on an approved claim is not rejected, it
\* goes on to its UPDATE.
C25_ApprovedCanBePaid ==
  [][\A r \in Reqs :
       (/\ BeginsUpdate(r)
        /\ req'[r].ctx = AdminA
        /\ req'[r].id \in ClaimIds
        /\ claims[req'[r].id].organizationId = AdminA.organizationId
        /\ claims[req'[r].id].status = "approved"
        /\ req'[r].newStatus = "paid")
       => (req'[r].pc = "write" /\ req'[r].outcome # "ClaimNotModifiable")]_vars


\* worker w's fetch returns in this step
Fetches(w) == wk[w].pc = "fetch" /\ wk'[w].pc \in {"update", "complete"}

\* worker w's updateStatusInternal call ends in this step without a claim
ReturnsNoClaim(w) ==
  wk[w].pc = "update" /\ wk'[w] # wk[w] /\ wk'[w].pc # "updwrite"

\* C26: a processor run calls the update path only for claims of the job's
\* patient that the fetch returned in its source status set (admission:
\* submitted; discharge: under_review or submitted; treatment: submitted),
\* always with its fixed target (admission and treatment: under_review;
\* discharge: approved); its result's count is the number of its claimIds,
\* which are exactly the claims whose update returned a claim in that run, and
\* that result is what the ledger stores on completion.
C26_RunUpdatesFetchedToTarget ==
  [][\A w \in Workers :
       LET type == wk[w].job.type
           source == IF type = "patient_discharge"
                       THEN {"under_review", "submitted"} ELSE {"submitted"}
           target == IF type = "patient_discharge" THEN "approved" ELSE "under_review"
       IN  /\ Fetches(w) =>
                \A id \in Range(wk'[w].list) :
                  /\ claims[id].patientId = wk[w].job.patientId
                  /\ claims[id].organizationId = wk[w].job.organizationId
                  /\ claims[id].status \in source
           /\ (wk'[w].calls # wk[w].calls /\ ~StartsRun(w)) =>
                /\ wk[w].pc = "update"
                /\ wk'[w].calls = Append(wk[w].calls, Current(w))
           /\ CommitsInternal(w) =>
                /\ claims'[Current(w)].status = target
                /\ LastEntry(claims'[Current(w)]).toStatus = target
                /\ \A id \in ClaimIds \ {Current(w)} : claims'[id] = claims[id]
                /\ wk'[w].updated = Append(wk[w].updated, Current(w))
           /\ ReturnsNoClaim(w) => wk'[w].updated = wk[w].updated
           /\ ReturnsResult(w) =>
                /\ wk'[w].ret.claimIds = wk[w].updated
                /\ wk'[w].ret.count = Len(wk'[w].ret.claimIds)
                /\ ledger'[KeyOf(wk[w].job)].result = wk'[w].ret]_vars

\* a completed discharge run that approved both claims of its patient
C26_Witness ==
  \E w \in Workers :
    /\ wk[w].pc = "done"
    /\ wk[w].outcome = "returned"
    /\ ~wk[w].replay
    /\ wk[w].job.type = "patient_discharge"
    /\ wk[w].ret = [count |-> 2, claimIds |-> <<"c1", "c2">>]
    /\ ledger[KeyOf(wk[w].job)].result = wk[w].ret
    /\ claims["c1"].status = "approved"
    /\ claims["c2"].status = "approved"


\* request slot r makes a createClaim call in this step
CallsCreate(r) ==
  /\ req[r].pc \in {"idle", "done"}
  /\ req'[r].op = "createClaim"
  /\ req'[r].pc = "done"
  /\ (req'[r] # req[r] \/ inserted' # inserted)

\* a createClaim call the spec lets through: a role that may create, a valid
\* diagnosis code and amount, a patient and a provider of the caller's
\* organization, and for a provider their own provider id
PermittedAndValid(input, context) ==
  /\ context.role \in {"admin", "claims_processor", "provider"}
  /\ input.diagnosisCode \in {"J06.9", "I10"}
  /\ input.amount >= 1 /\ input.amount <= 100000000
  /\ input.patientId \in DOMAIN PatientOrg
  /\ PatientOrg[input.patientId] = context.organizationId
  /\ input.providerId \in DOMAIN ProviderOrg
  /\ ProviderOrg[input.providerId] = context.organizationId
  /\ context.role = "provider" => input.providerId = context.providerId

\* C27: createClaim by a permitted caller with valid input stores a claim with
\* status submitted, organizationId equal to the caller context's
\* organization whatever the input carries, and a status history of exactly
\* one entry with fromStatus null and toStatus submitted.
C27_CreateStoresSubmitted ==
  [][\A r \in Reqs :
       (CallsCreate(r) /\ PermittedAndValid(req'[r].input, req'[r].ctx)) =>
         /\ req'[r].outcome = "ok"
         /\ Len(inserted') = Len(inserted) + 1
         /\ SubSeq(inserted', 1, Len(inserted)) = inserted
         /\ LET row == inserted'[Len(inserted')]
            IN  /\ row.status = "submitted"
                /\ row.organizationId = req'[r].ctx.organizationId
                /\ row.patientId = req'[r].input.patientId
                /\ row.providerId = req'[r].input.providerId
                /\ Len(row.statusHistory) = 1
                /\ row.statusHistory[1].fromStatus = Null
                /\ row.statusHistory[1].toStatus = "submitted"]_vars

\* a claim stored for orgA by a call whose input carried another organization
C27_Witness ==
  /\ req["r1"].op = "createClaim"
  /\ req["r1"].outcome = "ok"
  /\ req["r1"].input.organizationId = "orgB"
  /\ req["r1"].ctx.organizationId = "orgA"
  /\ Len(inserted) > 0
  /\ inserted[Len(inserted)].organizationId = "orgA"
  /\ inserted[Len(inserted)].status = "submitted"


\* request slot r takes the first step of a call of operation op
Calls(r, op) ==
  /\ req[r].pc \in {"idle", "done"}
  /\ req'[r].op = op
  /\ (req'[r] # req[r] \/ inserted' # inserted)

\* the call of slot r was refused and nothing was written
Refused(r) ==
  /\ req'[r].pc = "done"
  /\ req'[r].outcome = "Forbidden"
  /\ claims' = claims
  /\ inserted' = inserted

\* C28: create is permitted exactly for the roles admin, claims_processor and
\* provider, and updateStatus / bulkUpdateStatus exactly for admin and
\* claims_processor: a call by any other role fails with Forbidden and changes
\* no claim, and a call by one of these roles is not refused for its role.
C28_PermissionPolicy ==
  [][\A r \in Reqs :
       LET role == req'[r].ctx.role
           creators == {"admin", "claims_processor", "provider"}
           updaters == {"admin", "claims_processor"}
       IN  /\ Calls(r, "create") =>
                IF role \in creators
                  THEN \/ Refused(r) /\ role = "provider"
                               /\ req'[r].input.providerId # req'[r].ctx.providerId
                       \/ req'[r].outcome = "ok" /\ Len(inserted') = Len(inserted) + 1
                  ELSE Refused(r)
           /\ Calls(r, "updateStatus") =>
                IF role \in updaters
                  THEN req'[r].outcome # "Forbidden"
                  ELSE Refused(r)
           /\ Calls(r, "bulkUpdateStatus") =>
                IF role \in updaters
                  THEN req'[r].pc = "bulk" /\ req'[r].outcome # "Forbidden"
                  ELSE Refused(r)]_vars

\* a provider refused a bulk update after a create and an update by permitted
\* roles went through
C28_Witness ==
  /\ req["r1"].op = "bulkUpdateStatus"
  /\ req["r1"].ctx.role = "provider"
  /\ req["r1"].outcome = "Forbidden"
  /\ Len(inserted) > 0
  /\ inserted[1].statusHistory[1].changedBy = ProviderA.userId
  /\ claims["c1"].status = "approved"


\* C29: the context built for a request carries the user's assigned-claim set
\* as stored at that moment, not as it was when the credential was issued: the
\* request is scoped by the set the user row holds now, and a request of a
\* user who has been deactivated is rejected with Unauthorized.
C29_ContextRefreshedPerRequest ==
  [][\A r \in Reqs :
       Calls(r, "getClaim") =>
         LET row == users[req'[r].jwt.userId]
         IN  IF ~row.isActive
               THEN req'[r].outcome = "Unauthorized"
               ELSE /\ req'[r].ctx.assignedClaimIds = Some(row.assignedClaimIds)
                    /\ req'[r].outcome =
                         IF req'[r].id \in row.assignedClaimIds THEN "ok" ELSE "NotFound"]_vars

\* a request with a credential issued when the processor held c1 and c2, made
\* after c1 was taken from them: c1 is not found
C29_Witness ==
  /\ req["r1"].op = "getClaim"
  /\ req["r1"].jwt.userId = "u2"
  /\ req["r1"].jwt.assignedAtIssue = {"c1", "c2"}
  /\ users["u2"].assignedClaimIds = {"c2"}
  /\ req["r1"].ctx.assignedClaimIds = Some({"c2"})
  /\ req["r1"].id = "c1"
  /\ req["r1"].outcome = "NotFound"


\* the jobs of the queue that were added for the event with this key of this
\* organization
JobsByKey(q, key, organizationId) ==
  { i \in 1..Len(q) :
      q[i].idempotencyKey = JobKey(key) /\ q[i].organizationId = organizationId }

\* at most one stored event and at most one enqueued job per key and
\* organization
OneEventPerKey(tbl, q) ==
  \A input \in EventInputs, c \in EventContexts :
    /\ Cardinality(EventsByKey(tbl, input.idempotencyKey, c.organizationId)) <= 1
    /\ Cardinality(JobsByKey(q, input.idempotencyKey, c.organizationId)) <= 1

\* C30: for any sequence or interleaving of createStatusEvent calls with the
\* same idempotency key in one organization, at most one patient status event
\* is stored and at most one background job is enqueued for it; a call made
\* when an event with that key is stored returns the stored event and writes
\* nothing.
C30_EventIdempotency ==
  [][/\ OneEventPerKey(events', queue')
     /\ \A r \in Reqs :
          (/\ Calls(r, "createStatusEvent")
           /\ EventsByKey(events, req'[r].input.idempotencyKey,
                          req'[r].ctx.organizationId) # {})
          => /\ req'[r].pc = "done"
             /\ req'[r].outcome = "existing"
             /\ req'[r].event \in {events[i] : i \in 1..Len(events)}
             /\ req'[r].event.idempotencyKey = req'[r].input.idempotencyKey
             /\ req'[r].event.organizationId = req'[r].ctx.organizationId
             /\ events' = events
             /\ queue' = queue]_vars

\* two calls with one key raced in orgA: one created the event and its job,
\* the other was rejected by the unique index; a later call got the stored
\* event, which names another status type than that call asked for
C30_Witness ==
  /\ Len(events) = 1
  /\ Len(queue) = 1
  /\ events[1].organizationId = "orgA"
  /\ events[1].jobStatus = "processing"
  /\ req["r1"].op = "createStatusEvent"
  /\ req["r1"].outcome = "existing"
  /\ req["r1"].event = events[1]
  /\ req["r1"].input.statusType # events[1].statusType
  /\ req["r2"].op = "createStatusEvent"
  /\ req["r2"].outcome = "DatabaseError"


\* the stored events the job of worker w was enqueued for
EventsOfJob(tbl, w) ==
  { i \in 1..Len(tbl) :
      /\ JobKey(tbl[i].idempotencyKey) = wk[w].job.idempotencyKey
      /\ tbl[i].organizationId = wk[w].job.organizationId }

\* C31: a patient status event tracks its job's last known status: when the
\* job's processor run completes, the event's jobStatus becomes completed, and
\* when the run fails it becomes failed.
C31_EventTracksJobStatus ==
  [][\A w \in Workers :
       /\ ReturnsResult(w) =>
            \A i \in EventsOfJob(events', w) : events'[i].jobStatus = "completed"
       /\ LeavesCatch(w) =>
            \A i \in EventsOfJob(events', w) : events'[i].jobStatus = "failed"]_vars


\* request slot r takes a bulk-status-update request through the middleware
BulkRequest(r) ==
  /\ req[r].pc \in {"idle", "done"}
  /\ rateLimitStore' # rateLimitStore
  /\ req'[r].op = "POST /bulk-status-update"

\* C32: within one window an authenticated user's first 10 bulk-status-update
\* requests pass the rate limiters and the 11th is rejected with
\* RateLimitExceeded, however many non-bulk requests (below the general limit
\* of 100) the user made in the window.
C32_BulkRateLimit ==
  [][\A r \in Reqs :
       BulkRequest(r) =>
         LET entry == rateLimitStore'[GetRateLimitKey(req'[r].ctx)]
         IN  /\ (entry.bulkRequests <= BulkMaxRequests
                   /\ entry.requests < RateLimitMaxRequests)
                  => req'[r].outcome # "RateLimitExceeded"
             /\ entry.bulkRequests = BulkMaxRequests + 1
                  => req'[r].outcome = "RateLimitExceeded"]_vars


\* request slot r takes the first step of an updateStatus call of a processor
\* on a claim of their organization and assigned set that is not assigned to them
BeginsOnStaleAssignment(r) ==
  /\ BeginsUpdate(r)
  /\ req'[r].ctx.role = "claims_processor"
  /\ req'[r].id \in ClaimIds
  /\ MayUpdate(req'[r].ctx, req'[r].id)
  /\ claims[req'[r].id].assignedTo # req'[r].ctx.userId

\* C33 - updateStatus by a claims_processor on a claim whose id is in their
\* assigned set but whose assignedTo is not the caller fails with Forbidden and
\* leaves the claim's status and history unchanged.
C33_StaleAssignmentForbidden ==
  [][\A r \in Reqs :
       BeginsOnStaleAssignment(r) =>
         /\ req'[r].pc = "done"
         /\ req'[r].outcome = "Forbidden"
         /\ claims' = claims]_vars

\* C33 amended - such a call never reaches its UPDATE and leaves the claim as it
\* was; it fails with Forbidden when the claim's status is not approved or paid,
\* and with ClaimNotModifiable when it is (that check comes first).
C33_StaleAssignmentRefused ==
  [][\A r \in Reqs :
       BeginsOnStaleAssignment(r) =>
         /\ req'[r].pc = "done"
         /\ req'[r].outcome =
              IF claims[req'[r].id].status \in Terminal
                THEN "ClaimNotModifiable" ELSE "Forbidden"
         /\ claims' = claims]_vars

\* the processor's update of c2, after an admin moved it to under review, was
\* refused with Forbidden
C33_Witness ==
  /\ req["r1"].pc = "done"
  /\ req["r1"].op = "updateStatus"
  /\ req["r1"].ctx = ProcessorA
  /\ req["r1"].id = "c2"
  /\ req["r1"].outcome = "Forbidden"
  /\ claims["c2"].status = "under_review"

\* the time a write leaves in a timestamp column: kept when it was set, the
\* time of the write when the new status is one that sets it, unset otherwise
Stamped(before, sets, row) ==
  IF before # 0 THEN before ELSE IF sets THEN Now(row.statusHistory) ELSE 0

C35_FindByPatientIdRoleScoped ==
  [][\A r \in Reqs :
       Calls(r, "findByPatientId") =>
         \A c \in req'[r].rows : BuildRoleFilter(req'[r].ctx, claims[c])]_vars


\* C36 - patient status events are role-scoped: a patient-role caller's
\* getStatusEvent and getPatientHistory return only events whose patientId is
\* the context's patient id; events of another patient of the same organization
\* are not returned to them.
C36_EventsRoleScoped ==
  [][\A r \in Reqs :
       /\ Calls(r, "getPatientHistory") \/ Calls(r, "getStatusEvent")
       /\ req'[r].ctx.role = "patient"
       => \A i \in req'[r].rows : events[i].patientId = req'[r].ctx.patientId]_vars


\* request slot r takes a POST /api/claims request through the route
PostsClaim(r) ==
  /\ req[r].pc \in {"idle", "done"}
  /\ rateLimitStore' # rateLimitStore
  /\ req'[r].op = "POST /"

\* C37 - a provider-role caller can create a claim for their own provider id
\* through POST /api/claims: the request passes the route's role check and the
\* service and gateway checks when the patient and the provider exist and the
\* input is valid.
C37_ProviderCreatesThroughRoute ==
  [][\A r \in Reqs :
       /\ PostsClaim(r)
       /\ req'[r].ctx.role = "provider"
       /\ req'[r].input.providerId = req'[r].ctx.providerId
       /\ PermittedAndValid(req'[r].input, req'[r].ctx)
       /\ Len(inserted) < MaxCreated
       => /\ req'[r].outcome = "ok"
          /\ Len(inserted') = Len(inserted) + 1]_vars


\* C38 - every claim whose status is approved or rejected has processedAt set,
\* whichever path put it there (updateStatus, bulkUpdateStatus, or a
\* processor's updateStatusInternal such as the discharge auto-approval).
C38_ProcessedHasTimestamp ==
  \A c \in ClaimIds :
    claims[c].status \in {"approved", "rejected"} => claims[c].processedAt # 0


\* the status-history entries of claim c that a processor appended
ProcessorEntries(c) ==
  { i \in 1..Len(claims[c].statusHistory) :
      claims[c].statusHistory[i].via \notin {"request", "create"} }

\* C39 - every status-history entry appended by a background processor has a
\* fromStatus within that processor's source status set, even when another
\* writer's updateStatus on the same claim commits between the processor's
\* fetch and its update of that claim.
C39_ProcessorEntryFromSource ==
  \A c \in ClaimIds : \A i \in ProcessorEntries(c) :
    \A j \in Jobs :
      j.idempotencyKey = claims[c].statusHistory[i].via
        => claims[c].statusHistory[i].fromStatus \in SourceStatuses(j.type)


\* the event of the key is stored, its createStatusEvent call is over and the
\* queue holds no job for it
EnqueueFailed(key, organizationId) ==
  /\ EventsByKey(events, key, organizationId) # {}
  /\ JobsByKey(queue, key, organizationId) = {}
  /\ \A r \in Reqs : req[r].pc # "queueJob"

\* C40 - if enqueueing the job fails inside createStatusEvent, the request still
\* returns the created event, and the job can be retried: a repeated
\* createStatusEvent with the same idempotency key eventually gets the job for
\* that event enqueued.
C40_FailedEnqueueRetried ==
  EnqueueFailed("e1", "orgA") ~> (JobsByKey(queue, "e1", "orgA") # {})

=============================================================================
